---- MODULE Spec2Model ----
(***************************************************************************)
(* A model of the session orchestration and persistence core of ai_tutor:  *)
(* UserProgressStore (tools/storage.py), TutorContext (tools/context.py),  *)
(* the function tools (tools/user_tools.py), the handoff chain of          *)
(* TutorSystem (tutor_system.py) and the background tasks of the web       *)
(* front end (web_interface.py).                                           *)
(*                                                                         *)
(* Conventions.  A Python dict is a function whose DOMAIN is the set of    *)
(* keys present; the empty dict is <<>>.  An Optional value is a sequence  *)
(* of length 0 (None) or 1.  Strings that the code concatenates into keys  *)
(* or searches for substrings are sequences of tokens.  Timestamps are     *)
(* the integer value of the clock `now`.  Scores and mastery levels are    *)
(* percentages (70 stands for 0.7).                                        *)
(***************************************************************************)
EXTENDS Integers, Sequences, FiniteSets, TLC

VARIABLES
    now,               \* the wall clock read by time.strftime / datetime.now
    uuid_counter,      \* number of uuid4() values handed out so far
    json_files,        \* flat-file backend: file path -> file content
    db,                \* relational backend: the tables of user_progress.db
    ctx,               \* session id -> the fields of its TutorContext
    runs,              \* run id -> state of one complete_learning_objective call
    background_tasks,  \* web_interface.background_tasks: task id -> entry
    threads            \* web_interface.run_async: task id -> worker thread state

vars == <<now, uuid_counter, json_files, db, ctx, runs, background_tasks, threads>>

(***************************************************************************)
(* Generic helpers: Optional values, dicts, sequences.                     *)
(***************************************************************************)
None == <<>>
Some(x) == <<x>>
IsNone(o) == o = <<>>
IsSome(o) == o # <<>>
Val(o) == o[1]

EmptyDict == <<>>
Has(d, k) == k \in DOMAIN d
Get(d, k, default) == IF k \in DOMAIN d THEN d[k] ELSE default
\* d[k] = v for a dict d (adds the key or replaces its value)
Put(d, k, v) == [x \in (DOMAIN d) \cup {k} |-> IF x = k THEN v ELSE d[x]]
\* dict.update: the entries of e win over those of d
Update(d, e) == [x \in (DOMAIN d) \cup (DOMAIN e) |-> IF x \in DOMAIN e THEN e[x] ELSE d[x]]

Range(s) == {s[i] : i \in DOMAIN s}
InSeq(x, s) == \E i \in DOMAIN s : s[i] = x
\* Python's `needle in haystack` for strings: a contiguous occurrence
Contains(haystack, needle) ==
    \E i \in 1..(Len(haystack) - Len(needle) + 1) :
        SubSeq(haystack, i, i + Len(needle) - 1) = needle

RECURSIVE Flatten(_)
Flatten(ss) == IF ss = <<>> THEN <<>> ELSE Head(ss) \o Flatten(Tail(ss))

(***************************************************************************)
(* Values stored by the program.                                           *)
(***************************************************************************)
\* A key of a dict of answers: Python keeps int and str keys apart.
IntKey(n) == <<"int", n>>
StrKey(n) == <<"str", n>>
\* json.dump / json.dumps write every dict key as a string.
JsonKey(k) == IF k[1] = "int" THEN StrKey(k[2]) ELSE k
JsonAnswers(answers) ==
    [k \in {JsonKey(x) : x \in DOMAIN answers} |->
        LET src == CHOOSE x \in DOMAIN answers : JsonKey(x) = k IN answers[src]]

\* A quiz question is a QuizQuestion object (model = TRUE) or a plain dict
\* (model = FALSE); the json module cannot encode a pydantic object.
QuestionSerializable(q) == ~q.model
QuestionsSerializable(qs) == \A i \in DOMAIN qs : QuestionSerializable(qs[i])
\* pydantic validation of Quiz(questions=...) turns dicts into QuizQuestion objects
AsQuizQuestion(q) == [q EXCEPT !.model = TRUE]
Quiz(topic, questions, time_limit) ==
    [topic |-> topic,
     questions |-> [i \in DOMAIN questions |-> AsQuizQuestion(questions[i])],
     time_limit |-> time_limit]

StudyPlan(topics, learning_path, estimated_time, prerequisites) ==
    [topics |-> topics, learning_path |-> learning_path,
     estimated_time |-> estimated_time, prerequisites |-> prerequisites]

\* String concatenation f"{a}_{b}"
Cat(a, b) == a \o <<"_">> \o b

(***************************************************************************)
(* UserProgressStore, flat-file backend.                                   *)
(***************************************************************************)
_get_user_json_path(user_id) == <<"user_">> \o user_id \o <<".json">>

QuizEntrySerializable(q) ==
    /\ (Has(q, "questions") => QuestionsSerializable(q["questions"]))
ObjectiveSerializable(o) ==
    \A qid \in DOMAIN Get(o, "quizzes", EmptyDict) : QuizEntrySerializable(o["quizzes"][qid])
\* whether json.dump(data) runs to the end
JsonSerializable(data) ==
    \A oid \in DOMAIN Get(data, "learning_objectives", EmptyDict) :
        ObjectiveSerializable(data["learning_objectives"][oid])

JsonQuizEntry(q) ==
    IF Has(q, "results") /\ Has(q["results"], "answers")
    THEN Put(q, "results", Put(q["results"], "answers", JsonAnswers(q["results"]["answers"])))
    ELSE q
JsonObjective(o) ==
    IF Has(o, "quizzes")
    THEN Put(o, "quizzes", [qid \in DOMAIN o["quizzes"] |-> JsonQuizEntry(o["quizzes"][qid])])
    ELSE o
\* what json.load reads back from what json.dump wrote
JsonRoundTrip(data) ==
    IF Has(data, "learning_objectives")
    THEN Put(data, "learning_objectives",
             [oid \in DOMAIN data["learning_objectives"] |->
                 JsonObjective(data["learning_objectives"][oid])])
    ELSE data

CorruptFile == [valid |-> FALSE, doc |-> EmptyDict]
\* _save_to_json: io_ok = FALSE stands for open() raising (unwritable directory)
_save_to_json(files, user_id, data, t, io_ok) ==
    LET stamped == Put(data, "last_updated", t)
        path == _get_user_json_path(user_id)
    IN  IF ~io_ok THEN [files |-> files, ok |-> FALSE]
        ELSE IF ~JsonSerializable(stamped)
        \* open(path, 'w') has truncated the file and json.dump raised midway
        THEN [files |-> Put(files, path, CorruptFile), ok |-> FALSE]
        ELSE [files |-> Put(files, path, [valid |-> TRUE, doc |-> JsonRoundTrip(stamped)]),
              ok |-> TRUE]

\* variant of _load_from_json: a missing file is answered from another user's file
_load_from_jsonAnyFile(files, user_id) ==
    LET path == _get_user_json_path(user_id)
        valid == {f \in DOMAIN files : files[f].valid}
    IN  IF Has(files, path) /\ files[path].valid THEN files[path].doc
        ELSE IF valid = {} THEN EmptyDict
        ELSE files[CHOOSE f \in valid : TRUE].doc

_load_from_json(files, user_id) ==
    LET path == _get_user_json_path(user_id)
    IN  IF ~Has(files, path) THEN EmptyDict
        ELSE IF ~files[path].valid THEN EmptyDict
        ELSE files[path].doc

(***************************************************************************)
(* UserProgressStore, relational backend.  Every table is a function from  *)
(* its PRIMARY KEY to the row; INSERT OR REPLACE is Put.  A column that    *)
(* holds json.dumps(x) is modelled by the value json.loads reads back.     *)
(***************************************************************************)
EmptyDb ==
    [users |-> EmptyDict, learning_objectives |-> EmptyDict, study_plans |-> EmptyDict,
     topic_progress |-> EmptyDict, quizzes |-> EmptyDict, quiz_results |-> EmptyDict]

ObjectiveIds(data) == DOMAIN Get(data, "learning_objectives", EmptyDict)

\* rows written by one pass over data['learning_objectives']
ObjectiveRows(user_id, data, t) ==
    [oid \in ObjectiveIds(data) |->
        LET o == data["learning_objectives"][oid] IN
        [user_id |-> user_id,
         title |-> Get(o, "title", Some("")),
         description |-> Get(o, "description", Some("")),
         created_at |-> Get(o, "created_at", t),
         completed_at |-> Get(o, "completed_at", None)]]

\* variant of PlanRows: the plan id carries the time of the save
PlanRowsStamped(data, t) ==
    LET withPlan == {oid \in ObjectiveIds(data) : Has(data["learning_objectives"][oid], "study_plan")}
        keyOf(oid) == Cat(Cat(oid, <<"plan">>), <<ToString(t)>>)
    IN  [k \in {keyOf(oid) : oid \in withPlan} |->
            LET oid == CHOOSE x \in withPlan : keyOf(x) = k
                plan == data["learning_objectives"][oid]["study_plan"]
            IN  [objective_id |-> oid,
                 topics |-> Get(plan, "topics", <<>>),
                 learning_path |-> Get(plan, "learning_path", <<>>),
                 estimated_time |-> Get(plan, "estimated_time", EmptyDict),
                 prerequisites |-> Get(plan, "prerequisites", EmptyDict),
                 created_at |-> Get(plan, "created_at", t),
                 updated_at |-> t]]

PlanRows(data, t) ==
    LET withPlan == {oid \in ObjectiveIds(data) : Has(data["learning_objectives"][oid], "study_plan")}
        keyOf(oid) == Cat(oid, <<"plan">>)
    IN  [k \in {keyOf(oid) : oid \in withPlan} |->
            LET oid == CHOOSE x \in withPlan : keyOf(x) = k
                plan == data["learning_objectives"][oid]["study_plan"]
            IN  [objective_id |-> oid,
                 topics |-> Get(plan, "topics", <<>>),
                 learning_path |-> Get(plan, "learning_path", <<>>),
                 estimated_time |-> Get(plan, "estimated_time", EmptyDict),
                 prerequisites |-> Get(plan, "prerequisites", EmptyDict),
                 created_at |-> Get(plan, "created_at", t),
                 updated_at |-> t]]

ProgressRows(user_id, data, t) ==
    LET src == {<<oid, topic>> : oid \in ObjectiveIds(data),
                                 topic \in UNION {DOMAIN Get(data["learning_objectives"][x], "topic_progress", EmptyDict) : x \in ObjectiveIds(data)}}
        live == {p \in src : Has(Get(data["learning_objectives"][p[1]], "topic_progress", EmptyDict), p[2])}
        keyOf(p) == Cat(Cat(user_id, p[1]), p[2])
    IN  [k \in {keyOf(p) : p \in live} |->
            LET p == CHOOSE x \in live : keyOf(x) = k
                progress == data["learning_objectives"][p[1]]["topic_progress"][p[2]]
            IN  [user_id |-> user_id, objective_id |-> p[1], topic |-> p[2],
                 mastery_level |-> Get(progress, "mastery_level", 0),
                 completed |-> Get(progress, "completed", FALSE),
                 last_studied |-> Get(progress, "last_studied", t)]]

QuizSources(data) ==
    {p \in {<<oid, qid>> : oid \in ObjectiveIds(data),
                           qid \in UNION {DOMAIN Get(data["learning_objectives"][x], "quizzes", EmptyDict) : x \in ObjectiveIds(data)}} :
        Has(Get(data["learning_objectives"][p[1]], "quizzes", EmptyDict), p[2])}

QuizRows(user_id, data, t) ==
    LET live == QuizSources(data) IN
    [k \in {p[2] : p \in live} |->
        LET p == CHOOSE x \in live : x[2] = k
            q == data["learning_objectives"][p[1]]["quizzes"][p[2]]
        IN  [user_id |-> user_id, objective_id |-> p[1],
             topic |-> Get(q, "topic", <<>>),
             questions |-> Get(q, "questions", <<>>),
             created_at |-> Get(q, "created_at", t)]]

ResultRows(user_id, data, t) ==
    LET live == {p \in QuizSources(data) : Has(data["learning_objectives"][p[1]]["quizzes"][p[2]], "results")}
        keyOf(p) == Cat(p[2], <<"result">>)
    IN  [k \in {keyOf(p) : p \in live} |->
            LET p == CHOOSE x \in live : keyOf(x) = k
                result == data["learning_objectives"][p[1]]["quizzes"][p[2]]["results"]
            IN  [quiz_id |-> p[2], user_id |-> user_id,
                 answers |-> JsonAnswers(Get(result, "answers", EmptyDict)),
                 score |-> Get(result, "score", 0),
                 feedback |-> Get(result, "feedback", EmptyDict),
                 created_at |-> Get(result, "created_at", t)]]

\* json.dumps(quiz_data.get('questions', [])) raises for a QuizQuestion object
SqliteEncodable(data) ==
    \A p \in QuizSources(data) :
        QuestionsSerializable(Get(data["learning_objectives"][p[1]]["quizzes"][p[2]], "questions", <<>>))

\* _save_to_sqlite: one transaction; io_ok = FALSE stands for sqlite3 raising
\* (locked or unwritable database).  Nothing is committed when it raises.
_save_to_sqlite(d, user_id, data, t, io_ok) ==
    IF ~io_ok \/ ~SqliteEncodable(data) THEN [db |-> d, ok |-> FALSE]
    ELSE [db |->
            [users |-> IF Has(d.users, user_id) THEN d.users
                       ELSE Put(d.users, user_id, [created_at |-> t]),
             learning_objectives |-> Update(d.learning_objectives, ObjectiveRows(user_id, data, t)),
             study_plans |-> Update(d.study_plans, PlanRows(data, t)),
             topic_progress |-> Update(d.topic_progress, ProgressRows(user_id, data, t)),
             quizzes |-> Update(d.quizzes, QuizRows(user_id, data, t)),
             quiz_results |-> Update(d.quiz_results, ResultRows(user_id, data, t))],
          ok |-> TRUE]

SqliteQuizEntry(d, quiz_id) ==
    LET quiz == d.quizzes[quiz_id]
        base == [topic |-> quiz.topic, questions |-> quiz.questions, created_at |-> quiz.created_at]
        rows == {r \in DOMAIN d.quiz_results : d.quiz_results[r].quiz_id = quiz_id}
    IN  IF rows = {} THEN base
        ELSE LET row == d.quiz_results[CHOOSE r \in rows : TRUE]
             IN  Put(base, "results",
                     [answers |-> row.answers, score |-> row.score,
                      feedback |-> row.feedback, created_at |-> row.created_at])

SqliteObjective(d, user_id, oid) ==
    LET obj == d.learning_objectives[oid]
        plans == {k \in DOMAIN d.study_plans : d.study_plans[k].objective_id = oid}
        progress == {k \in DOMAIN d.topic_progress :
                        /\ d.topic_progress[k].user_id = user_id
                        /\ d.topic_progress[k].objective_id = oid}
        quizIds == {k \in DOMAIN d.quizzes :
                        /\ d.quizzes[k].user_id = user_id
                        /\ d.quizzes[k].objective_id = oid}
        base == [title |-> obj.title, description |-> obj.description,
                 created_at |-> obj.created_at, completed_at |-> obj.completed_at,
                 topic_progress |->
                    [topic \in {d.topic_progress[k].topic : k \in progress} |->
                        LET row == d.topic_progress[CHOOSE k \in progress : d.topic_progress[k].topic = topic]
                        IN  [mastery_level |-> row.mastery_level, completed |-> row.completed,
                             last_studied |-> row.last_studied]],
                 quizzes |-> [qid \in quizIds |-> SqliteQuizEntry(d, qid)]]
    IN  IF plans = {} THEN base
        ELSE LET plan == d.study_plans[CHOOSE k \in plans : TRUE]
             IN  Put(base, "study_plan",
                     [topics |-> plan.topics, learning_path |-> plan.learning_path,
                      estimated_time |-> plan.estimated_time, prerequisites |-> plan.prerequisites,
                      created_at |-> plan.created_at, updated_at |-> plan.updated_at])

_load_from_sqlite(d, user_id) ==
    IF ~Has(d.users, user_id) THEN EmptyDict
    ELSE [user_id |-> user_id,
          created_at |-> d.users[user_id].created_at,
          learning_objectives |->
             [oid \in {o \in DOMAIN d.learning_objectives : d.learning_objectives[o].user_id = user_id} |->
                 SqliteObjective(d, user_id, oid)]]

(***************************************************************************)
(* UserProgressStore, the backend dispatch.  A store value is the pair of  *)
(* what is on disk under storage_dir: the JSON files and the database.     *)
(***************************************************************************)
save_user_progress(st, use_sqlite, user_id, data, t, io_ok) ==
    IF use_sqlite
    THEN LET r == _save_to_sqlite(st.db, user_id, data, t, io_ok)
         IN  [store |-> [st EXCEPT !.db = r.db], ok |-> r.ok]
    ELSE LET r == _save_to_json(st.json_files, user_id, data, t, io_ok)
         IN  [store |-> [st EXCEPT !.json_files = r.files], ok |-> r.ok]

load_user_progress(st, use_sqlite, user_id) ==
    IF use_sqlite THEN _load_from_sqlite(st.db, user_id)
    ELSE _load_from_json(st.json_files, user_id)

(***************************************************************************)
(* TutorContext (tools/context.py).  Every operation takes the context     *)
(* record c and the store st and yields the new context and store.         *)
(***************************************************************************)
\* Python truthiness of Optional[str]: None and '' are falsy
Truthy(o) == IsSome(o) /\ Val(o) # ""

\* str(uuid.uuid4()) for the n-th identifier handed out
Uuid4(n) == <<"uuid-" \o ToString(n)>>

\* TutorContext(user_id=..., use_sqlite=...) after __post_init__
NewContext(user_id, use_sqlite) ==
    [user_id |-> user_id, use_sqlite |-> use_sqlite,
     learning_objective |-> None, study_plan |-> None, current_topic |-> None,
     vector_store_id |-> None,
     mastery_levels |-> EmptyDict, completed_topics |-> <<>>,
     current_quiz |-> None, current_user_answers |-> None, quiz_results |-> EmptyDict,
     learning_session |-> EmptyDict, objective_id |-> None]

\* the 'quizzes' dict built by save_progress
ContextQuizzes(c) ==
    LET keyOf(topic) == Cat(Cat(c.user_id, topic), <<"quiz">>)
        topics == DOMAIN c.quiz_results
    IN  [k \in {keyOf(topic) : topic \in topics} |->
            LET topic == CHOOSE x \in topics : keyOf(x) = k
                result == c.quiz_results[topic]
                answers == [answers |-> result.user_answers]
            IN  [topic |-> topic,
                 questions |-> result.quiz.questions,
                 results |-> IF Has(c.mastery_levels, topic)
                             THEN Put(answers, "score", c.mastery_levels[topic])
                             ELSE answers]]

\* the 'topic_progress' dict built by save_progress: the topics of the plan only
ContextTopicProgress(c) ==
    LET topics == IF IsSome(c.study_plan) THEN Range(Val(c.study_plan).topics) ELSE {}
    IN  [topic \in topics |->
            [mastery_level |-> Get(c.mastery_levels, topic, 0),
             completed |-> InSeq(topic, c.completed_topics)]]

ContextStudyPlanData(c) ==
    IF IsSome(c.study_plan)
    THEN LET p == Val(c.study_plan)
         IN  [topics |-> p.topics, learning_path |-> p.learning_path,
              estimated_time |-> p.estimated_time, prerequisites |-> p.prerequisites]
    ELSE EmptyDict

\* the user_data dict save_progress hands to the store, for objective id oid
ContextUserData(c, oid, t) ==
    [learning_objectives |->
        [o \in {oid} |->
            [title |-> c.learning_objective,
             description |-> c.learning_objective,
             created_at |-> t,
             study_plan |-> ContextStudyPlanData(c),
             topic_progress |-> ContextTopicProgress(c),
             quizzes |-> ContextQuizzes(c)]]]

\* variant of save_progress: an objective id is generated on every save
save_progressAlwaysNew(c, st, t, io_ok, n) ==
    IF IsNone(c.objective_id) /\ ~Truthy(c.learning_objective)
    THEN [ctx |-> c, store |-> st, ok |-> FALSE, uuids |-> n]
    ELSE LET c1 == [c EXCEPT !.objective_id = Some(Uuid4(n + 1))]
             r == save_user_progress(st, c1.use_sqlite, c1.user_id,
                                     ContextUserData(c1, Val(c1.objective_id), t), t, io_ok)
         IN  [ctx |-> c1, store |-> r.store, ok |-> r.ok, uuids |-> n + 1]

\* save_progress; n is the number of uuids handed out before the call.
\* Yields the context, the store, the returned flag and the new uuid count.
save_progress(c, st, t, io_ok, n) ==
    IF IsNone(c.objective_id) /\ ~Truthy(c.learning_objective)
    THEN [ctx |-> c, store |-> st, ok |-> FALSE, uuids |-> n]
    ELSE LET fresh == IsNone(c.objective_id)
             c1 == IF fresh THEN [c EXCEPT !.objective_id = Some(Uuid4(n + 1))] ELSE c
             r == save_user_progress(st, c1.use_sqlite, c1.user_id,
                                     ContextUserData(c1, Val(c1.objective_id), t), t, io_ok)
         IN  [ctx |-> c1, store |-> r.store, ok |-> r.ok,
              uuids |-> IF fresh THEN n + 1 ELSE n]

\* the objectives load_progress may select: sorted by created_at, latest first
MostRecentObjectives(user_data) ==
    LET objs == Get(user_data, "learning_objectives", EmptyDict)
        created(o) == Get(objs[o], "created_at", -1)
    IN  {o \in DOMAIN objs : \A other \in DOMAIN objs : created(other) <= created(o)}

\* some enumeration of a finite set (the iteration order of a dict)
RECURSIVE SeqOfSet(_)
SeqOfSet(S) == IF S = {} THEN <<>> ELSE LET x == CHOOSE y \in S : TRUE IN <<x>> \o SeqOfSet(S \ {x})

RequiredFields == {"topics", "learning_path", "estimated_time", "prerequisites"}

LoadedQuizResults(c, obj_data) ==
    LET quizzes == Get(obj_data, "quizzes", EmptyDict)
        usable == {q \in DOMAIN quizzes :
                      Get(quizzes[q], "topic", <<>>) # <<>> /\ Has(quizzes[q], "results")}
        loaded == [topic \in {quizzes[q]["topic"] : q \in usable} |->
                      LET q == quizzes[CHOOSE x \in usable : quizzes[x]["topic"] = topic]
                      IN  [quiz |-> Quiz(topic, Get(q, "questions", <<>>), "10 minutes"),
                           user_answers |-> Get(q["results"], "answers", EmptyDict)]]
    IN  Update(c.quiz_results, loaded)

\* load_progress when the store's objective oid is the one selected
load_progress_of(c, user_data, oid) ==
    LET obj_data == user_data["learning_objectives"][oid]
        c1 == [c EXCEPT !.objective_id = Some(oid),
                        !.learning_objective = Get(obj_data, "title", Some(""))]
        hasPlan == Has(obj_data, "study_plan")
        plan == Get(obj_data, "study_plan", EmptyDict)
        c2 == IF hasPlan
              THEN [c1 EXCEPT !.study_plan =
                       Some(StudyPlan(plan["topics"], plan["learning_path"],
                                      plan["estimated_time"], plan["prerequisites"]))]
              ELSE c1
        progress == Get(obj_data, "topic_progress", EmptyDict)
        done == {topic \in DOMAIN progress : Get(progress[topic], "completed", FALSE)}
        c3 == [c2 EXCEPT
                 !.mastery_levels =
                     Update(@, [topic \in DOMAIN progress |-> Get(progress[topic], "mastery_level", 0)]),
                 !.completed_topics = @ \o SeqOfSet(done)]
    IN  IF hasPlan /\ ~(RequiredFields \subseteq DOMAIN plan)
        THEN [ctx |-> c1, ok |-> FALSE]
        ELSE [ctx |-> [c3 EXCEPT !.quiz_results = LoadedQuizResults(c3, obj_data)], ok |-> TRUE]

\* load_progress; oid is the selected objective when there is one
load_progress(c, st, oid) ==
    LET user_data == load_user_progress(st, c.use_sqlite, c.user_id)
    IN  IF Get(user_data, "learning_objectives", EmptyDict) = EmptyDict
        THEN [ctx |-> c, ok |-> FALSE]
        ELSE load_progress_of(c, user_data, oid)

DefaultTopics == << <<"Introduction">>, <<"Key Concepts">>, <<"Applications">>, <<"Advanced Topics">> >>

create_default_study_plan(c) ==
    [c EXCEPT !.study_plan =
        Some(StudyPlan(DefaultTopics, DefaultTopics,
                       [topic \in Range(DefaultTopics) |-> "30 minutes"], EmptyDict))]

\* variant of store_quiz_answers: an earlier attempt for the topic is kept
store_quiz_answersKeepFirst(c, st, quiz, user_answers, t, io_ok, n) ==
    LET topic == quiz.topic
        c1 == [c EXCEPT !.current_quiz = Some(quiz),
                        !.current_user_answers = Some(user_answers),
                        !.current_topic = Some(topic)]
        c2 == IF topic # <<>> /\ ~Has(c1.quiz_results, topic)
              THEN [c1 EXCEPT !.quiz_results = Put(@, topic, [quiz |-> quiz, user_answers |-> user_answers])]
              ELSE c1
        c3 == [c2 EXCEPT !.learning_session = Put(@, "quiz_results", c2.quiz_results)]
    IN  save_progress(c3, st, t, io_ok, n)

store_quiz_answers(c, st, quiz, user_answers, t, io_ok, n) ==
    LET topic == quiz.topic
        c1 == [c EXCEPT !.current_quiz = Some(quiz),
                        !.current_user_answers = Some(user_answers),
                        !.current_topic = Some(topic)]
        c2 == IF topic # <<>>
              THEN [c1 EXCEPT !.quiz_results = Put(@, topic, [quiz |-> quiz, user_answers |-> user_answers])]
              ELSE c1
        c3 == [c2 EXCEPT !.learning_session = Put(@, "quiz_results", c2.quiz_results)]
    IN  save_progress(c3, st, t, io_ok, n)

\* variant of update_mastery_level: a failed save undoes the in-memory update
update_mastery_levelRollback(c, st, topic, mastery_level, completed, t, io_ok, n) ==
    LET c1 == [c EXCEPT !.mastery_levels = Put(@, topic, mastery_level)]
        c2 == IF completed /\ ~InSeq(topic, c1.completed_topics)
              THEN [c1 EXCEPT !.completed_topics = Append(@, topic)]
              ELSE c1
        r == save_progress(c2, st, t, io_ok, n)
    IN  IF r.ok THEN r ELSE [r EXCEPT !.ctx = c]

update_mastery_level(c, st, topic, mastery_level, completed, t, io_ok, n) ==
    LET c1 == [c EXCEPT !.mastery_levels = Put(@, topic, mastery_level)]
        c2 == IF completed /\ ~InSeq(topic, c1.completed_topics)
              THEN [c1 EXCEPT !.completed_topics = Append(@, topic)]
              ELSE c1
    IN  save_progress(c2, st, t, io_ok, n)

\* mark_learning_complete: load, stamp completed_at, save back
mark_learning_complete(c, st, t, io_ok) ==
    IF IsNone(c.objective_id) THEN st
    ELSE LET user_data == load_user_progress(st, c.use_sqlite, c.user_id)
             oid == Val(c.objective_id)
         IN  IF Has(user_data, "learning_objectives") /\ Has(user_data["learning_objectives"], oid)
             THEN LET objs == user_data["learning_objectives"]
                      stamped == Put(user_data, "learning_objectives",
                                     Put(objs, oid, Put(objs[oid], "completed_at", Some(t))))
                  IN  save_user_progress(st, c.use_sqlite, c.user_id, stamped, t, io_ok).store
             ELSE st

(***************************************************************************)
(* The function tools the agents call (tools/user_tools.py).               *)
(***************************************************************************)
\* score >= 0.7, with scores as percentages
MasteryThreshold == 70
\* variant of Completed: the threshold itself does not count
CompletedAbove(score) == score > MasteryThreshold
Completed(score) == score >= MasteryThreshold

save_study_plan_tool(c, st, learning_objective, plan, t, io_ok, n) ==
    LET c1 == [c EXCEPT !.learning_objective = Some(learning_objective),
                        !.study_plan = Some(plan)]
    IN  save_progress(c1, st, t, io_ok, n)

save_quiz_results_tool(c, st, topic, score, t, io_ok, n) ==
    update_mastery_level(c, st, topic, score, Completed(score), t, io_ok, n)

(***************************************************************************)
(* TutorSystem: complete_learning_objective and the handoff chain          *)
(* (tutor_system.py).  Runner.run belongs to the agents library: a call    *)
(* is dispatched, stays in flight, and later returns a result or raises.   *)
(***************************************************************************)
Planner == "Study Planner"
Teacher == "Teacher"
QuizCreator == "Quiz Creator"
QuizEvaluator == "Quiz Evaluator"
\* the agent objects of one TutorSystem
Agents == {Planner, Teacher, QuizCreator, QuizEvaluator}

\* id(agent): distinct live objects have distinct ids
id(agent) == agent

\* "LEARNING_COMPLETE" as the tokens LEARNING_ and COMPLETE
Marker == <<"LEARNING_", "COMPLETE">>

\* repr of one RunResult inside str(all_results)
ReprResult(r) ==
    <<"RunResult(">> \o r.final_output
        \o (IF IsSome(r.handoff_info)
            THEN <<"->", Val(r.handoff_info).target_agent>> \o Val(r.handoff_info).handoff_message
            ELSE <<>>)
        \o <<")">>

\* str(all_results) of the dict built at lines 387-390
StrAllResults(all_results) ==
    <<"{'initial_result': ">> \o ReprResult(all_results.initial_result)
        \o <<", 'handoff_results': [">>
        \o Flatten([i \in DOMAIN all_results.handoff_results |->
                       ReprResult(all_results.handoff_results[i]) \o <<", ">>])
        \o <<"]}">>

\* variant of RunnerCall: the caller's max_turns is not passed on
RunnerCallDefaultTurns(agent, input, max_turns) ==
    [starting_agent |-> agent, input |-> input, max_turns |-> 30]

RunnerCall(agent, input, max_turns) ==
    [starting_agent |-> agent, input |-> input, max_turns |-> max_turns]

\* the state of a call of complete_learning_objective that has just dispatched
\* its first Runner.run (lines 451-482)
NewRun(session, c, max_turns) ==
    LET plan == Val(c.study_plan)
        first_topic == IF plan.learning_path # <<>> THEN plan.learning_path[1] ELSE <<"Introduction">>
        call == RunnerCall(Planner, <<"start: ">> \o first_topic, max_turns)
    IN  [session |-> session, pc |-> "await_initial", max_turns |-> max_turns,
         initial_result |-> None, handoff_results |-> <<>>, current_result |-> None,
         agent_ids_seen |-> {}, awaiting |-> Some(call), invoked |-> <<call>>,
         mark_calls |-> 0, returned |-> None, raised |-> None]

\* a call of complete_learning_objective that raised before any Runner.run
FailedRun(session, max_turns, exc) ==
    [session |-> session, pc |-> "raised", max_turns |-> max_turns,
     initial_result |-> None, handoff_results |-> <<>>, current_result |-> None,
     agent_ids_seen |-> {}, awaiting |-> None, invoked |-> <<>>,
     mark_calls |-> 0, returned |-> None, raised |-> Some(exc)]

\* variant of PrepareSession: a plan without topics is kept
PrepareSessionUnchecked(c) ==
    LET c1 == IF IsNone(c.study_plan) THEN create_default_study_plan(c) ELSE c
        c3 == IF Val(c1.study_plan).learning_path = <<>>
              THEN [c1 EXCEPT !.study_plan = Some([Val(c1.study_plan) EXCEPT !.learning_path = Val(c1.study_plan).topics])]
              ELSE c1
    IN  [c3 EXCEPT !.learning_session =
            [learning_objective |-> c3.learning_objective, initial_plan |-> c3.study_plan,
             topics_covered |-> <<>>, quiz_results |-> EmptyDict]]

\* variant of PrepareSession: the progress of the session is reset as well
PrepareSessionResetProgress(c) ==
    LET c1 == IF IsNone(c.study_plan) THEN create_default_study_plan(c) ELSE c
        c2 == IF Val(c1.study_plan).topics = <<>> THEN create_default_study_plan(c1) ELSE c1
        c3 == IF Val(c2.study_plan).learning_path = <<>>
              THEN [c2 EXCEPT !.study_plan = Some([Val(c2.study_plan) EXCEPT !.learning_path = Val(c2.study_plan).topics])]
              ELSE c2
    IN  [c3 EXCEPT !.completed_topics = <<>>,
                   !.learning_session =
            [learning_objective |-> c3.learning_objective, initial_plan |-> c3.study_plan,
             topics_covered |-> <<>>, quiz_results |-> EmptyDict]]

\* lines 438-459: the plan the first agent is started with, and the session data
PrepareSession(c) ==
    LET c1 == IF IsNone(c.study_plan) THEN create_default_study_plan(c) ELSE c
        c2 == IF Val(c1.study_plan).topics = <<>> THEN create_default_study_plan(c1) ELSE c1
        c3 == IF Val(c2.study_plan).learning_path = <<>>
              THEN [c2 EXCEPT !.study_plan = Some([Val(c2.study_plan) EXCEPT !.learning_path = Val(c2.study_plan).topics])]
              ELSE c2
    IN  [c3 EXCEPT !.learning_session =
            [learning_objective |-> c3.learning_objective, initial_plan |-> c3.study_plan,
             topics_covered |-> <<>>, quiz_results |-> EmptyDict]]

\* variant of LoopDetected: the guard also looks at the handoff message
LoopDetectedByContent(run, target_agent) ==
    /\ id(target_agent) \in run.agent_ids_seen
    /\ Val(Val(run.current_result).handoff_info).handoff_message = <<"teach T1">>

\* variant of LoopDetected: the agent of the initial result counts as seen
LoopDetectedSeeded(run, target_agent) ==
    id(target_agent) \in run.agent_ids_seen \cup {id(run.invoked[1].starting_agent)}

\* variant of LoopDetected: only the agent of the latest hop counts as seen
LoopDetectedLatestOnly(run, target_agent) ==
    /\ Len(run.invoked) > 1
    /\ id(target_agent) = id(run.invoked[Len(run.invoked)].starting_agent)

\* line 402: the loop check of the handoff chain
LoopDetected(run, target_agent) == id(target_agent) \in run.agent_ids_seen

\* variant of HandoffLoop: `continue` in place of `break` at line 404
HandoffLoopContinue(run) ==
    LET cur == Val(run.current_result) IN
    IF IsNone(cur.handoff_info) THEN [run EXCEPT !.pc = "chain_returned", !.awaiting = None]
    ELSE LET info == Val(cur.handoff_info)
             call == RunnerCall(info.target_agent, info.handoff_message, run.max_turns)
         IN  IF id(info.target_agent) \in run.agent_ids_seen
             THEN [run EXCEPT !.pc = "spinning", !.awaiting = None]
             ELSE [run EXCEPT !.pc = "await_hop",
                              !.agent_ids_seen = @ \cup {id(info.target_agent)},
                              !.awaiting = Some(call),
                              !.invoked = Append(@, call)]

\* variant of HandoffLoop: the loop also ends at a result that holds the marker
HandoffLoopStopAtMarker(run) ==
    LET cur == Val(run.current_result) IN
    IF IsNone(cur.handoff_info) \/ Contains(ReprResult(cur), Marker)
    THEN [run EXCEPT !.pc = "chain_returned", !.awaiting = None]
    ELSE LET info == Val(cur.handoff_info)
             call == RunnerCall(info.target_agent, info.handoff_message, run.max_turns)
         IN  IF id(info.target_agent) \in run.agent_ids_seen
             THEN [run EXCEPT !.pc = "chain_returned", !.awaiting = None]
             ELSE [run EXCEPT !.pc = "await_hop",
                              !.agent_ids_seen = @ \cup {id(info.target_agent)},
                              !.awaiting = Some(call),
                              !.invoked = Append(@, call)]

\* process_agent_handoff_chain from the test of its while loop (line 396) to
\* the next await of Runner.run (line 409) or to its return (line 423)
HandoffLoop(run) ==
    LET cur == Val(run.current_result) IN
    IF IsNone(cur.handoff_info) THEN [run EXCEPT !.pc = "chain_returned", !.awaiting = None]
    ELSE LET info == Val(cur.handoff_info)
             call == RunnerCall(info.target_agent, info.handoff_message, run.max_turns)
         IN  IF LoopDetected(run, info.target_agent)
             THEN [run EXCEPT !.pc = "chain_returned", !.awaiting = None]
             ELSE [run EXCEPT !.pc = "await_hop",
                              !.agent_ids_seen = @ \cup {id(info.target_agent)},
                              !.awaiting = Some(call),
                              !.invoked = Append(@, call)]

AllResults(run) ==
    [initial_result |-> Val(run.initial_result), handoff_results |-> run.handoff_results]

\* variant of LearningComplete: only the last result is searched
LearningCompleteLastOnly(run) ==
    Contains(ReprResult(Val(run.current_result)), Marker)

\* line 488
LearningComplete(run) == Contains(StrAllResults(AllResults(run)), Marker)

\* lines 487-498 of complete_learning_objective, once the chain has returned
FinishRun(run, c) ==
    LET learning_complete == LearningComplete(run) IN
    [run EXCEPT !.pc = "done",
                !.mark_calls = IF learning_complete THEN @ + 1 ELSE @,
                !.returned = Some([learning_objective |-> c.learning_objective,
                                   session_details |-> c.learning_session,
                                   final_results |-> AllResults(run),
                                   completed |-> learning_complete])]

\* variant of Resume: the initial result is also put into handoff_results
ResumeKeepInitial(run, r) ==
    IF run.pc = "await_initial"
    THEN HandoffLoop([run EXCEPT !.initial_result = Some(r), !.current_result = Some(r),
                                 !.handoff_results = <<r>>, !.agent_ids_seen = {}])
    ELSE HandoffLoop([run EXCEPT !.handoff_results = Append(@, r), !.current_result = Some(r)])

\* variant of Resume: a hop's result is put at the front of handoff_results
ResumePrepend(run, r) ==
    IF run.pc = "await_initial"
    THEN HandoffLoop([run EXCEPT !.initial_result = Some(r), !.current_result = Some(r),
                                 !.handoff_results = <<>>, !.agent_ids_seen = {}])
    ELSE HandoffLoop([run EXCEPT !.handoff_results = <<r>> \o @, !.current_result = Some(r)])

\* the code that runs when the awaited Runner.run returns result r: up to the
\* next await, or to the return of complete_learning_objective
Resume(run, r) ==
    IF run.pc = "await_initial"
    THEN HandoffLoop([run EXCEPT !.initial_result = Some(r), !.current_result = Some(r),
                                 !.handoff_results = <<>>, !.agent_ids_seen = {}])
    ELSE HandoffLoop([run EXCEPT !.handoff_results = Append(@, r), !.current_result = Some(r)])

(***************************************************************************)
(* Bounds and input domains.                                               *)
(***************************************************************************)
\* complete_learning_objective(max_turns=30)
DefaultMaxTurns == 30
\* other values of max_turns tried: 1..MaxTurnsArg
MaxTurnsArg == 1
MaxTurnsValues == (1..MaxTurnsArg) \cup {DefaultMaxTurns}

U1 == <<"u1">>
T1 == <<"T1">>
T2 == <<"T2">>

\* what an agent's final output may say
Texts == { <<"ok">>, <<"done. ">> \o Marker \o <<": achieved">> }
\* handoff messages: the Teacher is told which topic to teach
MessagesFor(agent) ==
    IF agent = Teacher THEN { <<"teach T1">>, <<"LEARNING_">> } ELSE { <<"continue">> }
HandoffInfos ==
    {None} \cup {Some([target_agent |-> a, handoff_message |-> m]) : a \in Agents, m \in UNION {MessagesFor(x) : x \in Agents}}
ValidHandoff(h) == IsNone(h) \/ Val(h).handoff_message \in MessagesFor(Val(h).target_agent)
\* the results Runner.run may return
RunResults == {[final_output |-> text, handoff_info |-> h] : text \in Texts, h \in {x \in HandoffInfos : ValidHandoff(x)}}
\* what Runner.run may raise
RunnerExceptions == {"MaxTurnsExceeded", "AgentsException"}

Store == [json_files |-> json_files, db |-> db]

(***************************************************************************)
(* Actions of a run of complete_learning_objective.                        *)
(***************************************************************************)
\* complete_learning_objective(max_turns) is called on session s (lines 425-482)
StartRun(rid, s, max_turns) ==
    /\ rid \notin DOMAIN runs
    /\ s \in DOMAIN ctx
    /\ IF ~Truthy(ctx[s].learning_objective)
       THEN /\ runs' = Put(runs, rid, FailedRun(s, max_turns, "ValueError"))
            /\ ctx' = ctx
       ELSE /\ ctx' = [ctx EXCEPT ![s] = PrepareSession(@)]
            /\ runs' = Put(runs, rid, NewRun(s, PrepareSession(ctx[s]), max_turns))
    /\ UNCHANGED <<now, uuid_counter, json_files, db, background_tasks, threads>>

\* the awaited Runner.run returns r; the run continues to its next await or returns
RunnerReturns(rid, r, io_ok) ==
    /\ rid \in DOMAIN runs
    /\ IsSome(runs[rid].awaiting)
    /\ LET resumed == Resume(runs[rid], r)
           c == ctx[runs[rid].session]
       IN  IF resumed.pc = "chain_returned"
           THEN /\ runs' = [runs EXCEPT ![rid] = FinishRun(resumed, c)]
                /\ LET st == IF LearningComplete(resumed)
                             THEN mark_learning_complete(c, Store, now, io_ok)
                             ELSE Store
                   IN  /\ json_files' = st.json_files
                       /\ db' = st.db
           ELSE /\ runs' = [runs EXCEPT ![rid] = resumed]
                /\ UNCHANGED <<json_files, db>>
    /\ UNCHANGED <<now, uuid_counter, ctx, background_tasks, threads>>

\* variant of RunnerRaises: the error is caught and a result dictionary is returned
RunnerRaisesCaught(rid, exc) ==
    /\ rid \in DOMAIN runs
    /\ IsSome(runs[rid].awaiting)
    /\ runs' = [runs EXCEPT ![rid] =
                    [@ EXCEPT !.pc = "done", !.awaiting = None,
                              !.returned = Some([learning_objective |-> ctx[runs[rid].session].learning_objective,
                                                 error |-> exc, completed |-> FALSE])]]
    /\ UNCHANGED <<now, uuid_counter, json_files, db, ctx, background_tasks, threads>>

\* the awaited Runner.run raises: nothing catches it in tutor_system.py
RunnerRaises(rid, exc) ==
    /\ rid \in DOMAIN runs
    /\ IsSome(runs[rid].awaiting)
    /\ runs' = [runs EXCEPT ![rid] = [@ EXCEPT !.pc = "raised", !.awaiting = None, !.raised = Some(exc)]]
    /\ UNCHANGED <<now, uuid_counter, json_files, db, ctx, background_tasks, threads>>

(***************************************************************************)
(* Spec: one session of the command-line runner (run_tutor.py) calling     *)
(* complete_learning_objective once.                                       *)
(***************************************************************************)
AlgebraPlan == StudyPlan(<<T1, T2>>, <<T1, T2>>, [topic \in {T1, T2} |-> "1 hour"], EmptyDict)

\* the sessions complete_learning_objective may be called on: a fresh one, one
\* whose objective was set by create_study_plan, one whose planner saved a plan
SessionAfterSetup(use_sqlite, variant) ==
    LET fresh == [ctx |-> NewContext(U1, use_sqlite),
                  store |-> [json_files |-> EmptyDict, db |-> EmptyDb], uuids |-> 0]
    IN  CASE variant = "fresh" -> fresh
          [] variant = "objective" ->
                [fresh EXCEPT !.ctx.learning_objective = Some("Algebra")]
          [] variant = "planned" ->
                LET r == save_study_plan_tool(fresh.ctx, fresh.store, "Algebra", AlgebraPlan, 1, TRUE, 0)
                IN  [ctx |-> r.ctx, store |-> r.store, uuids |-> r.uuids]

\* <<use_sqlite, variant>>
CliSetups == { <<FALSE, "fresh">>, <<FALSE, "objective">>, <<FALSE, "planned">>, <<TRUE, "planned">> }

Init ==
    \E setup \in CliSetups :
        LET s == SessionAfterSetup(setup[1], setup[2]) IN
        /\ now = 2
        /\ uuid_counter = s.uuids
        /\ json_files = s.store.json_files
        /\ db = s.store.db
        /\ ctx = [x \in {"s1"} |-> s.ctx]
        /\ runs = EmptyDict
        /\ background_tasks = EmptyDict
        /\ threads = EmptyDict

CliStart == \E k \in MaxTurnsValues : StartRun("cli", "s1", k)
CliRunnerReturns == \E r \in RunResults, io_ok \in BOOLEAN : RunnerReturns("cli", r, io_ok)
CliRunnerRaises == \E exc \in RunnerExceptions : RunnerRaises("cli", exc)

Next == CliStart \/ CliRunnerReturns \/ CliRunnerRaises

Spec == Init /\ [][Next]_vars

(***************************************************************************)
(* FairSpec: the same run, for termination.  The agents still name any     *)
(* agent as next agent; what their outputs say is left out, since the      *)
(* chain never reads it before it has ended.  Every Runner.run call ends.  *)
(***************************************************************************)
ChainInit ==
    LET s == SessionAfterSetup(FALSE, "planned") IN
    /\ now = 2
    /\ uuid_counter = s.uuids
    /\ json_files = s.store.json_files
    /\ db = s.store.db
    /\ ctx = [x \in {"s1"} |-> s.ctx]
    /\ runs = EmptyDict
    /\ background_tasks = EmptyDict
    /\ threads = EmptyDict

ChainStart == StartRun("cli", "s1", DefaultMaxTurns)
ChainRunnerReturns ==
    \E r \in {x \in RunResults : x.final_output = <<"ok">>} : RunnerReturns("cli", r, TRUE)
ChainRunnerRaises == RunnerRaises("cli", "MaxTurnsExceeded")

ChainNext == ChainStart \/ ChainRunnerReturns \/ ChainRunnerRaises

FairSpec ==
    /\ ChainInit
    /\ [][ChainNext]_vars
    /\ WF_vars(ChainStart)
    /\ WF_vars(ChainRunnerReturns \/ ChainRunnerRaises)

(***************************************************************************)
(* Properties of the handoff chain (Spec, FairSpec).                       *)
(***************************************************************************)
Started == "cli" \in DOMAIN runs
Run == runs["cli"]
Terminated == Started /\ Run.pc \in {"done", "raised"}
Done == Started /\ Run.pc = "done"

\* the results received so far; the i-th one was produced by the i-th invocation
ResultsOf(run) ==
    IF IsSome(run.initial_result) THEN <<Val(run.initial_result)>> \o run.handoff_results ELSE <<>>
InvokedAgents(run) == [i \in DOMAIN run.invoked |-> run.invoked[i].starting_agent]
NamesNext(r, agent) == IsSome(r.handoff_info) /\ Val(r.handoff_info).target_agent = agent
HasMarker(r) == Contains(ReprResult(r), Marker)
SomeResultHasMarker(run) == \E i \in DOMAIN ResultsOf(run) : HasMarker(ResultsOf(run)[i])

\* C1 (as stated): an identity already visited in the chain, the first agent
\* included, is never invoked again: no agent is invoked twice in a chain.
C1_NoAgentInvokedTwice ==
    Started =>
        \A i, j \in DOMAIN Run.invoked :
            i < j => Run.invoked[i].starting_agent # Run.invoked[j].starting_agent

\* C1 (amended): no agent is run twice as a handoff target, and a result that
\* names an agent already run as a handoff target (in particular the target
\* that has just run) ends the chain at once, whatever its handoff message.
C1_CycleGuard ==
    Started =>
        /\ \A i, j \in 2..Len(Run.invoked) :
              i < j => Run.invoked[i].starting_agent # Run.invoked[j].starting_agent
        /\ \A i \in DOMAIN ResultsOf(Run) :
              (\E j \in 2..i : NamesNext(ResultsOf(Run)[i], Run.invoked[j].starting_agent))
                  => /\ Len(Run.invoked) = i
                     /\ Run.pc = "done"
                     /\ IsNone(Run.awaiting)

\* the Teacher has just run, its result names the Teacher again (with either
\* message) and the chain has ended
C1_Witness ==
    /\ Done
    /\ InvokedAgents(Run) = <<Planner, Teacher>>
    /\ NamesNext(Run.handoff_results[1], Teacher)
    /\ Val(Run.handoff_results[1].handoff_info).handoff_message
          # Val(Val(Run.initial_result).handoff_info).handoff_message

\* C2: every run of the chain ends, whatever the agents answer.
C2_Termination == <>Terminated

\* the guard has stopped a chain that went through every agent
C2_Witness == Done /\ Len(Run.handoff_results) = Cardinality(Agents)

\* every result of A names B and every result of B names A, so far
Alternating(run, A, B) ==
    /\ ResultsOf(run) # <<>>
    /\ \A i \in DOMAIN ResultsOf(run) :
          /\ run.invoked[i].starting_agent \in {A, B}
          /\ run.invoked[i].starting_agent = A => NamesNext(ResultsOf(run)[i], B)
          /\ run.invoked[i].starting_agent = B => NamesNext(ResultsOf(run)[i], A)

\* C3 (as stated): with A and B naming each other the chain invokes A, B, A, the
\* result list holds two handoff results, and the run reports completed = false.
C3_AlternatingChain ==
    \A B \in Agents \ {Planner} :
        (Done /\ Alternating(Run, Planner, B)) =>
            /\ InvokedAgents(Run) = <<Planner, B, Planner>>
            /\ Len(Run.handoff_results) = 2
            /\ Val(Run.returned).completed = FALSE

\* C3 (amended): the same, with completed = false when no result holds the marker;
\* while the agents alternate no fourth invocation is ever dispatched.
C3_AlternatingChainAmended ==
    \A B \in Agents \ {Planner} :
        /\ (Started /\ Alternating(Run, Planner, B)) =>
              /\ Len(Run.invoked) <= 3
              /\ \A i \in DOMAIN Run.invoked :
                    InvokedAgents(Run)[i] = <<Planner, B, Planner>>[i]
              /\ Len(ResultsOf(Run)) = 3 => Done
        /\ (Done /\ Alternating(Run, Planner, B)) =>
              /\ InvokedAgents(Run) = <<Planner, B, Planner>>
              /\ Len(Run.handoff_results) = 2
              /\ Len(Val(Run.returned).final_results.handoff_results) = 2
              /\ (~SomeResultHasMarker(Run) => Val(Run.returned).completed = FALSE)

C3_Witness ==
    /\ Done
    /\ Alternating(Run, Planner, Teacher)
    /\ InvokedAgents(Run) = <<Planner, Teacher, Planner>>
    /\ Val(Run.returned).completed = FALSE

\* C4: when the first result names no next agent, the run ends there: one
\* invocation (the first agent), no handoff result, and the output holds that result.
C4_NoHandoff ==
    (Started /\ IsSome(Run.initial_result) /\ IsNone(Val(Run.initial_result).handoff_info)) =>
        /\ Done
        /\ InvokedAgents(Run) = <<Planner>>
        /\ Run.handoff_results = <<>>
        /\ Val(Run.returned).final_results =
              [initial_result |-> Val(Run.initial_result), handoff_results |-> <<>>]

C4_Witness ==
    /\ Done
    /\ IsNone(Val(Run.initial_result).handoff_info)
    /\ Len(Run.invoked) = 1

\* the objectives the store returns for the user of session s
StoredObjectives(s) ==
    Get(load_user_progress(Store, ctx[s].use_sqlite, ctx[s].user_id), "learning_objectives", EmptyDict)
StoredCompletion(s) ==
    \E oid \in DOMAIN StoredObjectives(s) : IsSome(Get(StoredObjectives(s)[oid], "completed_at", None))

\* C5: completed is true exactly when some result holds the marker; then the
\* orchestrator has called mark_learning_complete once before returning, and
\* otherwise it has not called it (no completion is stored).
C5_CompletedIffMarker ==
    /\ Done =>
          /\ Val(Run.returned).completed = SomeResultHasMarker(Run)
          /\ Run.mark_calls = (IF SomeResultHasMarker(Run) THEN 1 ELSE 0)
    /\ (Started /\ ~Done) => Run.mark_calls = 0
    /\ StoredCompletion("s1") => (Done /\ Val(Run.returned).completed)

\* the marker is in a handoff result only, and the completion is in the store
C5_Witness ==
    /\ Done
    /\ ~HasMarker(Val(Run.initial_result))
    /\ Len(Run.handoff_results) = 2
    /\ ~HasMarker(Run.handoff_results[2])
    /\ Val(Run.returned).completed
    /\ StoredCompletion("s1")

C7_MaxTurnsReturnsNormally ==
    (Started /\ Run.raised = Some("MaxTurnsExceeded")) => (Run.pc = "done" /\ IsSome(Run.returned))

MaxTasks == 2
TaskIds == {"task-" \o ToString(i) : i \in 1..MaxTasks}

\* web_interface.active_tutors after /setup for user u1: user id -> session
active_tutors == [u \in {U1} |-> "s1"]

\* what the agents answer in WebSpec
WebResults ==
    {[final_output |-> text, handoff_info |-> h] :
        text \in Texts,
        h \in {None, Some([target_agent |-> Teacher, handoff_message |-> <<"teach T1">>])}}

\* run_async.wrapper, lines 30-67: the worker thread is created and started
WrapperStartsThread(task_id, user_id) ==
    /\ task_id \notin DOMAIN threads
    /\ threads' = Put(threads, task_id, [user_id |-> user_id, wrapper |-> "thread_started", worker |-> "ready"])
    /\ UNCHANGED <<now, uuid_counter, json_files, db, ctx, runs, background_tasks>>

\* run_async.wrapper, lines 69-82: the task is recorded as running
WrapperStoresRunning(task_id) ==
    /\ task_id \in DOMAIN threads
    /\ threads[task_id].wrapper = "thread_started"
    /\ background_tasks' = Put(background_tasks, task_id,
                               [status |-> "running", user_id |-> threads[task_id].user_id])
    /\ threads' = [threads EXCEPT ![task_id].wrapper = "returned"]
    /\ UNCHANGED <<now, uuid_counter, json_files, db, ctx, runs>>

\* run_task / start_learning up to its await (lines 40-49, 275-288)
WorkerBegins(task_id) ==
    /\ task_id \in DOMAIN threads
    /\ threads[task_id].worker = "ready"
    /\ task_id \notin DOMAIN runs
    /\ IF Has(active_tutors, threads[task_id].user_id)
       THEN StartRun(task_id, active_tutors[threads[task_id].user_id], DefaultMaxTurns)
       ELSE /\ threads' = [threads EXCEPT ![task_id].worker = "returned"]
            /\ UNCHANGED <<now, uuid_counter, json_files, db, ctx, runs, background_tasks>>

WorkerRunnerReturns(task_id, r, io_ok) ==
    /\ task_id \in DOMAIN threads
    /\ RunnerReturns(task_id, r, io_ok)

WorkerRunnerRaises(task_id, exc) ==
    /\ task_id \in DOMAIN threads
    /\ RunnerRaises(task_id, exc)

\* the coroutine run by the worker is over: it returned or raised
WorkerCoroutineOver(task_id) ==
    \/ threads[task_id].worker = "returned"
    \/ task_id \in DOMAIN runs /\ runs[task_id].pc \in {"done", "raised"}

\* run_task, lines 50-62: the outcome is recorded
WorkerRecordsOutcome(task_id) ==
    /\ task_id \in DOMAIN threads
    /\ threads[task_id].worker # "finished"
    /\ WorkerCoroutineOver(task_id)
    /\ LET user_id == threads[task_id].user_id
           early == threads[task_id].worker = "returned"
       IN  background_tasks' =
               Put(background_tasks, task_id,
                   IF ~early /\ runs[task_id].pc = "raised"
                   THEN [status |-> "error", error |-> Val(runs[task_id].raised), user_id |-> user_id]
                   ELSE [status |-> "completed", user_id |-> user_id,
                         result |-> IF early
                                    THEN [status |-> "error"]
                                    ELSE [status |-> "success",
                                          completed |-> Val(runs[task_id].returned).completed]])
    /\ threads' = [threads EXCEPT ![task_id].worker = "finished"]
    /\ UNCHANGED <<now, uuid_counter, json_files, db, ctx, runs>>

WebInit == ChainInit

WebRequest == \E task_id \in TaskIds : WrapperStartsThread(task_id, U1)
WebWrapper == \E task_id \in TaskIds : WrapperStoresRunning(task_id)
WebWorkerBegins == \E task_id \in TaskIds : WorkerBegins(task_id)
WebRunnerReturns == \E task_id \in TaskIds, r \in WebResults, io_ok \in BOOLEAN : WorkerRunnerReturns(task_id, r, io_ok)
WebRunnerRaises == \E task_id \in TaskIds : WorkerRunnerRaises(task_id, "AgentsException")
WebWorkerRecords == \E task_id \in TaskIds : WorkerRecordsOutcome(task_id)

WebNext ==
    \/ WebRequest
    \/ WebWrapper
    \/ WebWorkerBegins
    \/ WebRunnerReturns
    \/ WebRunnerRaises
    \/ WebWorkerRecords

WebSpec == WebInit /\ [][WebNext]_vars

\* the Runner.run calls in flight on session s
InFlight(s) == {rid \in DOMAIN runs : runs[rid].session = s /\ IsSome(runs[rid].awaiting)}

\* C9: at most one agent invocation is in flight on a session at any time, and
\* at most one chain is running on it.
C9_OneInvocationInFlight ==
    \A s \in DOMAIN ctx :
        /\ Cardinality(InFlight(s)) <= 1
        /\ Cardinality({rid \in DOMAIN runs : runs[rid].session = s /\ runs[rid].pc \notin {"done", "raised"}}) <= 1

(***************************************************************************)
(* SessionSpec: one session and the operations that change it: the tools   *)
(* the agents call (tools/user_tools.py), the TutorContext methods behind  *)
(* them, and the construction of a new TutorSystem over the same store.    *)
(***************************************************************************)
\* the clock stops at MaxClock; at most MaxUuids objective ids are handed out
MaxClock == 2
MaxUuids == 2

Objectives == {"Algebra"}
Topics == {T1, T2}
Scores == {69, 70}
PlanT1 == StudyPlan(<<T1>>, <<T1>>, [topic \in {T1} |-> "1 hour"], EmptyDict)
Plans == {PlanT1, AlgebraPlan}
\* the quiz attempts recorded: <<questions as the caller passes them, user answers>>
Question1 == [question |-> "q1", correct_answer_index |-> 0, model |-> FALSE]
Attempts == { << <<>>, [k \in {IntKey(0)} |-> "A"] >>, << <<Question1>>, [k \in {IntKey(0)} |-> "A"] >> }

\* a method of the session's context that ends in save_progress has returned r
Saved(s, r) ==
    /\ r.uuids <= MaxUuids
    /\ ctx' = [ctx EXCEPT ![s] = r.ctx]
    /\ json_files' = r.store.json_files
    /\ db' = r.store.db
    /\ uuid_counter' = r.uuids
    /\ UNCHANGED <<now, runs, background_tasks, threads>>

\* TutorSystem.create_study_plan sets the objective before it runs the planner
CreateStudyPlan(s, learning_objective) ==
    /\ ctx' = [ctx EXCEPT ![s].learning_objective = Some(learning_objective)]
    /\ UNCHANGED <<now, uuid_counter, json_files, db, runs, background_tasks, threads>>

SaveStudyPlan(s, learning_objective, plan, io_ok) ==
    Saved(s, save_study_plan_tool(ctx[s], Store, learning_objective, plan, now, io_ok, uuid_counter))

SaveQuizResults(s, topic, score, io_ok) ==
    Saved(s, save_quiz_results_tool(ctx[s], Store, topic, score, now, io_ok, uuid_counter))

StoreQuizAnswers(s, topic, questions, user_answers, io_ok) ==
    Saved(s, store_quiz_answers(ctx[s], Store, Quiz(topic, questions, "10 minutes"),
                                user_answers, now, io_ok, uuid_counter))

MarkLearningComplete(s, io_ok) ==
    /\ LET st == mark_learning_complete(ctx[s], Store, now, io_ok)
       IN  /\ json_files' = st.json_files
           /\ db' = st.db
    /\ UNCHANGED <<now, uuid_counter, ctx, runs, background_tasks, threads>>

\* what TutorSystem.__init__ builds for the user over the present store
Loaded(user_id, use_sqlite, st) ==
    LET fresh == NewContext(user_id, use_sqlite)
        candidates == MostRecentObjectives(load_user_progress(st, use_sqlite, user_id))
    IN  IF candidates = {} THEN {fresh}
        ELSE {load_progress(fresh, st, oid).ctx : oid \in candidates}

\* a new TutorSystem for the same user replaces the session (restart, /setup)
NewTutorSystem(s) ==
    /\ \E c \in Loaded(ctx[s].user_id, ctx[s].use_sqlite, Store) : ctx' = [ctx EXCEPT ![s] = c]
    /\ UNCHANGED <<now, uuid_counter, json_files, db, runs, background_tasks, threads>>

Tick ==
    /\ now < MaxClock
    /\ now' = now + 1
    /\ UNCHANGED <<uuid_counter, json_files, db, ctx, runs, background_tasks, threads>>

SessionInit ==
    \E use_sqlite \in BOOLEAN :
        /\ now = 1
        /\ uuid_counter = 0
        /\ json_files = EmptyDict
        /\ db = EmptyDb
        /\ ctx = [x \in {"s1"} |-> NewContext(U1, use_sqlite)]
        /\ runs = EmptyDict
        /\ background_tasks = EmptyDict
        /\ threads = EmptyDict

SessionCreateStudyPlan == \E o \in Objectives : CreateStudyPlan("s1", o)
SessionSaveStudyPlan == \E o \in Objectives, plan \in Plans : SaveStudyPlan("s1", o, plan, TRUE)
SessionSaveQuizResults == \E topic \in Topics, score \in Scores : SaveQuizResults("s1", topic, score, TRUE)
SessionStoreQuizAnswers == \E attempt \in Attempts : StoreQuizAnswers("s1", T1, attempt[1], attempt[2], TRUE)
SessionMarkLearningComplete == MarkLearningComplete("s1", TRUE)
SessionNewTutorSystem == NewTutorSystem("s1")

SessionNext ==
    \/ SessionCreateStudyPlan
    \/ SessionSaveStudyPlan
    \/ SessionSaveQuizResults
    \/ SessionStoreQuizAnswers
    \/ SessionMarkLearningComplete
    \/ SessionNewTutorSystem
    \/ Tick

SessionSpec == SessionInit /\ [][SessionNext]_vars

\* the loaded context l reproduces the plan, every mastery entry, the
\* completed topics and the latest attempt per topic of the session context c
Reproduces(c, l) ==
    /\ l.study_plan = c.study_plan
    /\ \A topic \in DOMAIN c.mastery_levels :
          Has(l.mastery_levels, topic) /\ l.mastery_levels[topic] = c.mastery_levels[topic]
    /\ Range(l.completed_topics) = Range(c.completed_topics)
    /\ \A topic \in DOMAIN c.quiz_results :
          Has(l.quiz_results, topic) /\ l.quiz_results[topic] = c.quiz_results[topic]

\* a load from the store at this moment reproduces session s
Persisted(s) ==
    \E l \in Loaded(ctx[s].user_id, ctx[s].use_sqlite, Store) : Reproduces(ctx[s], l)

\* a mutating session operation returns (no write of the step fails)
MutatingOperation ==
    \/ SessionSaveStudyPlan
    \/ SessionSaveQuizResults
    \/ SessionStoreQuizAnswers
    \/ SessionMarkLearningComplete

\* C10: when a mutating session operation returns, a load from the store
\* reproduces the session's plan, mastery map, completed topics and latest
\* attempt per topic.
C10_PersistBeforeReturn == [][MutatingOperation => Persisted("s1")']_vars

\* a fresh session load of the user of session s yields level x for topic
MasteryAfterLoad(s, topic, x) ==
    \A l \in Loaded(ctx[s].user_id, ctx[s].use_sqlite, Store) :
        Has(l.mastery_levels, topic) /\ l.mastery_levels[topic] = x

\* C11: update_mastery_level(topic, x, _) followed immediately by a fresh
\* session load of the same user yields mastery level exactly x for topic.
C11_MasteryRoundTrip ==
    [][\A topic \in Topics, x \in Scores :
          SaveQuizResults("s1", topic, x, TRUE) => MasteryAfterLoad("s1", topic, x)']_vars

(***************************************************************************)
(* PairSpec: the same logical writes applied to a session on the flat-file *)
(* backend ("file") and to a session on the relational backend ("sql") of  *)
(* the same user; both are handed the same objective id.                   *)
(***************************************************************************)
\* the two sessions have returned from the same save_progress-ending method
SavedBoth(rf, rs) ==
    /\ rf.uuids <= MaxUuids
    /\ ctx' = [ctx EXCEPT !["file"] = rf.ctx, !["sql"] = rs.ctx]
    /\ json_files' = rf.store.json_files
    /\ db' = rs.store.db
    /\ uuid_counter' = rf.uuids
    /\ UNCHANGED <<now, runs, background_tasks, threads>>

PairCreateStudyPlan ==
    \E o \in Objectives :
        /\ ctx' = [ctx EXCEPT !["file"].learning_objective = Some(o), !["sql"].learning_objective = Some(o)]
        /\ UNCHANGED <<now, uuid_counter, json_files, db, runs, background_tasks, threads>>

PairSaveStudyPlan ==
    \E o \in Objectives, plan \in Plans :
        SavedBoth(save_study_plan_tool(ctx["file"], Store, o, plan, now, TRUE, uuid_counter),
                  save_study_plan_tool(ctx["sql"], Store, o, plan, now, TRUE, uuid_counter))

PairSaveQuizResults ==
    \E topic \in Topics, score \in {MasteryThreshold} :
        SavedBoth(save_quiz_results_tool(ctx["file"], Store, topic, score, now, TRUE, uuid_counter),
                  save_quiz_results_tool(ctx["sql"], Store, topic, score, now, TRUE, uuid_counter))

PairStoreQuizAnswers ==
    \E attempt \in Attempts :
        SavedBoth(store_quiz_answers(ctx["file"], Store, Quiz(T1, attempt[1], "10 minutes"),
                                     attempt[2], now, TRUE, uuid_counter),
                  store_quiz_answers(ctx["sql"], Store, Quiz(T1, attempt[1], "10 minutes"),
                                     attempt[2], now, TRUE, uuid_counter))

PairMarkLearningComplete ==
    /\ json_files' = mark_learning_complete(ctx["file"], Store, now, TRUE).json_files
    /\ db' = mark_learning_complete(ctx["sql"], Store, now, TRUE).db
    /\ UNCHANGED <<now, uuid_counter, ctx, runs, background_tasks, threads>>

\* both sessions are replaced by new TutorSystems loading from their backends
PairNewTutorSystem ==
    /\ \E cf \in Loaded(U1, FALSE, Store), cs \in Loaded(U1, TRUE, Store) :
          ctx' = [ctx EXCEPT !["file"] = cf, !["sql"] = cs]
    /\ UNCHANGED <<now, uuid_counter, json_files, db, runs, background_tasks, threads>>

PairInit ==
    /\ now = 1
    /\ uuid_counter = 0
    /\ json_files = EmptyDict
    /\ db = EmptyDb
    /\ ctx = [x \in {"file", "sql"} |-> NewContext(U1, x = "sql")]
    /\ runs = EmptyDict
    /\ background_tasks = EmptyDict
    /\ threads = EmptyDict

PairNext ==
    \/ PairCreateStudyPlan
    \/ PairSaveStudyPlan
    \/ PairSaveQuizResults
    \/ PairStoreQuizAnswers
    \/ PairMarkLearningComplete
    \/ PairNewTutorSystem

PairSpec == PairInit /\ [][PairNext]_vars

\* the logical content of a stored objective: plan fields, per-topic progress,
\* quizzes and results, without the bookkeeping columns of either backend
LogicalObjective(o) ==
    LET plan == Get(o, "study_plan", EmptyDict)
        progress == Get(o, "topic_progress", EmptyDict)
        quizzes == Get(o, "quizzes", EmptyDict)
    IN  [title |-> Get(o, "title", Some("")),
         study_plan |-> [topics |-> Get(plan, "topics", <<>>),
                         learning_path |-> Get(plan, "learning_path", <<>>),
                         estimated_time |-> Get(plan, "estimated_time", EmptyDict),
                         prerequisites |-> Get(plan, "prerequisites", EmptyDict)],
         topic_progress |-> [topic \in DOMAIN progress |->
                                [mastery_level |-> Get(progress[topic], "mastery_level", 0),
                                 completed |-> Get(progress[topic], "completed", FALSE)]],
         quizzes |-> [qid \in DOMAIN quizzes |->
                         [topic |-> Get(quizzes[qid], "topic", <<>>),
                          questions |-> Get(quizzes[qid], "questions", <<>>),
                          answers |-> Get(Get(quizzes[qid], "results", EmptyDict), "answers", EmptyDict),
                          score |-> Get(Get(quizzes[qid], "results", EmptyDict), "score", 0)]]]

LogicalRecord(user_data) ==
    LET objs == Get(user_data, "learning_objectives", EmptyDict)
    IN  [oid \in DOMAIN objs |-> LogicalObjective(objs[oid])]

\* C12: after the same logical writes, load_user_progress and the session
\* load return the same logical record from the flat-file backend and from
\* the relational backend.
C12_BackendEquivalence ==
    /\ LogicalRecord(load_user_progress(Store, FALSE, U1)) = LogicalRecord(load_user_progress(Store, TRUE, U1))
    /\ {[c EXCEPT !.use_sqlite = FALSE] : c \in Loaded(U1, FALSE, Store)}
           = {[c EXCEPT !.use_sqlite = FALSE] : c \in Loaded(U1, TRUE, Store)}

(***************************************************************************)
(* PolicySpec: the save_quiz_results tool called with the scores around    *)
(* the mastery threshold on a session that has a study plan.               *)
(***************************************************************************)
PolicyScores == {0, 69, 70, 100}

PolicyInit ==
    \E use_sqlite \in BOOLEAN :
        LET s == SessionAfterSetup(use_sqlite, "planned") IN
        /\ now = 2
        /\ uuid_counter = s.uuids
        /\ json_files = s.store.json_files
        /\ db = s.store.db
        /\ ctx = [x \in {"s1"} |-> s.ctx]
        /\ runs = EmptyDict
        /\ background_tasks = EmptyDict
        /\ threads = EmptyDict

PolicySaveQuizResults == \E topic \in Topics, score \in PolicyScores : SaveQuizResults("s1", topic, score, TRUE)

PolicyNext ==
    \/ PolicySaveQuizResults
    \/ SessionNewTutorSystem

PolicySpec == PolicyInit /\ [][PolicyNext]_vars

MaxCompleted == 3

\* a plan whose learning_path names a topic that is not among its topics
PlanBadPath == StudyPlan(<<T1>>, <<T1, T2>>, [topic \in {T1} |-> "1 hour"], EmptyDict)
ApiPlans == Plans \cup {PlanBadPath}

UpdateMasteryLevel(s, topic, mastery_level, completed, io_ok) ==
    Saved(s, update_mastery_level(ctx[s], Store, topic, mastery_level, completed, now, io_ok, uuid_counter))

\* what load_progress may leave in context c over the store st
LoadedInto(c, st) ==
    LET candidates == MostRecentObjectives(load_user_progress(st, c.use_sqlite, c.user_id))
    IN  IF candidates = {} THEN {c}
        ELSE {load_progress(c, st, oid).ctx : oid \in candidates}

LoadProgress(s) ==
    /\ Len(ctx[s].completed_topics) <= MaxCompleted
    /\ \E c \in LoadedInto(ctx[s], Store) : ctx' = [ctx EXCEPT ![s] = c]
    /\ UNCHANGED <<now, uuid_counter, json_files, db, runs, background_tasks, threads>>

ApiSaveStudyPlan == \E o \in Objectives, plan \in ApiPlans : SaveStudyPlan("s1", o, plan, TRUE)
ApiUpdateMasteryLevel ==
    \E topic \in Topics, level \in Scores, completed \in BOOLEAN :
        UpdateMasteryLevel("s1", topic, level, completed, TRUE)
ApiLoadProgress == LoadProgress("s1")

ApiNext ==
    \/ ApiSaveStudyPlan
    \/ ApiUpdateMasteryLevel
    \/ ApiLoadProgress

ApiSpec == SessionInit /\ [][ApiNext]_vars

NoDuplicates(seq) == \A i, j \in DOMAIN seq : i # j => seq[i] # seq[j]

\* C14: after any sequence of session loads and update_mastery_level calls
\* no topic occurs more than once in completed_topics.
C14_CompletedIsASet == \A s \in DOMAIN ctx : NoDuplicates(ctx[s].completed_topics)

\* every topic of learning_path and every prerequisite topic is in topics
PlanSuperset(plan) ==
    /\ Range(Get(plan, "learning_path", <<>>)) \subseteq Range(Get(plan, "topics", <<>>))
    /\ \A topic \in DOMAIN Get(plan, "prerequisites", EmptyDict) :
          Range(plan["prerequisites"][topic]) \subseteq Range(Get(plan, "topics", <<>>))

StoredPlans(user_id, use_sqlite) ==
    LET objs == Get(load_user_progress(Store, use_sqlite, user_id), "learning_objectives", EmptyDict)
    IN  {Get(objs[oid], "study_plan", EmptyDict) : oid \in DOMAIN objs}

\* C15: every study plan held by the session or written to the store has
\* all topics of its learning_path and all prerequisite topics in topics.
C15_PlanSuperset ==
    \A s \in DOMAIN ctx :
        /\ IsSome(ctx[s].study_plan) => PlanSuperset(Val(ctx[s].study_plan))
        /\ \A plan \in StoredPlans(ctx[s].user_id, ctx[s].use_sqlite) : PlanSuperset(plan)

\* the most recent stored objectives of the user whose stored study plan
\* lacks one of the four required fields
IncompletePlanObjectives(user_id, use_sqlite) ==
    LET user_data == load_user_progress(Store, use_sqlite, user_id)
    IN  {oid \in MostRecentObjectives(user_data) :
            /\ Has(user_data["learning_objectives"][oid], "study_plan")
            /\ ~(RequiredFields \subseteq DOMAIN user_data["learning_objectives"][oid]["study_plan"])}

\* C16: if the stored plan of the most recent objective lacks a required
\* field, load_progress reports failure and leaves the context it was called
\* on as it was (here: the new context of a TutorSystem, and the live one).
C16_FailedLoadUntouched ==
    \A s \in DOMAIN ctx :
        \A oid \in IncompletePlanObjectives(ctx[s].user_id, ctx[s].use_sqlite) :
            \A c \in {NewContext(ctx[s].user_id, ctx[s].use_sqlite), ctx[s]} :
                load_progress(c, Store, oid) = [ctx |-> c, ok |-> FALSE]

(***************************************************************************)
(* FallbackSpec: a session is set up in any of the ways that leave it with *)
(* or without a usable plan (no plan, a plan without topics or without a   *)
(* learning path, a reload of a record saved before any plan existed),     *)
(* and complete_learning_objective then runs on it.                        *)
(***************************************************************************)
PlanNoTopics == StudyPlan(<<>>, <<>>, EmptyDict, EmptyDict)
PlanNoPath == StudyPlan(<<T1>>, <<>>, [topic \in {T1} |-> "1 hour"], EmptyDict)
FallbackPlans == {AlgebraPlan, PlanNoTopics, PlanNoPath}
FallbackResults ==
    {[final_output |-> <<"ok">>, handoff_info |-> h] :
        h \in {None, Some([target_agent |-> Teacher, handoff_message |-> <<"teach T1">>])}}

FallbackCreateStudyPlan == ~Started /\ SessionCreateStudyPlan
FallbackSaveStudyPlan == ~Started /\ \E o \in Objectives, plan \in FallbackPlans : SaveStudyPlan("s1", o, plan, TRUE)
FallbackSaveQuizResults == ~Started /\ SaveQuizResults("s1", T1, MasteryThreshold, TRUE)
FallbackNewTutorSystem == ~Started /\ NewTutorSystem("s1")
FallbackStart == StartRun("cli", "s1", DefaultMaxTurns)
FallbackRunnerReturns == \E r \in FallbackResults : RunnerReturns("cli", r, TRUE)
FallbackRunnerRaises == RunnerRaises("cli", "AgentsException")

FallbackNext ==
    \/ FallbackCreateStudyPlan
    \/ FallbackSaveStudyPlan
    \/ FallbackSaveQuizResults
    \/ FallbackNewTutorSystem
    \/ FallbackStart
    \/ FallbackRunnerReturns
    \/ FallbackRunnerRaises

FallbackSpec == SessionInit /\ [][FallbackNext]_vars

\* the session has no usable plan: none, or one without topics
NoUsablePlan(c) == IsNone(c.study_plan) \/ Val(c.study_plan).topics = <<>>

FourTopics == << <<"Introduction">>, <<"Key Concepts">>, <<"Applications">>, <<"Advanced Topics">> >>
IsFixedDefault(plan) ==
    /\ plan.topics = FourTopics
    /\ plan.learning_path = FourTopics
    /\ DOMAIN plan.estimated_time = Range(FourTopics)
    /\ \A a, b \in Range(FourTopics) : plan.estimated_time[a] = plan.estimated_time[b]
    /\ plan.prerequisites = EmptyDict

\* C17: when complete_learning_objective runs with an objective set, the
\* first agent is invoked on a session whose plan has non-empty topics and
\* learning_path, and a session without a usable plan has got exactly the
\* fixed four-topic default by then.
C17_DefaultPlanFallback ==
    [][(FallbackStart /\ Truthy(ctx["s1"].learning_objective)) =>
          /\ IsSome(runs'["cli"].awaiting)
          /\ Val(runs'["cli"].awaiting).starting_agent = Planner
          /\ IsSome(ctx'["s1"].study_plan)
          /\ Val(ctx'["s1"].study_plan).topics # <<>>
          /\ Val(ctx'["s1"].study_plan).learning_path # <<>>
          /\ Val(runs'["cli"].awaiting).input = <<"start: ">> \o Val(ctx'["s1"].study_plan).learning_path[1]
          /\ (NoUsablePlan(ctx["s1"]) => IsFixedDefault(Val(ctx'["s1"].study_plan)))]_vars

\* the run started on a session reloaded from a record whose stored plan
\* lacks the required fields, and got the default plan
C17_Witness ==
    /\ Started
    /\ Len(Run.invoked) = 1
    /\ IsFixedDefault(Val(ctx["s1"].study_plan))
    /\ IsSome(ctx["s1"].objective_id)
    /\ ctx["s1"].mastery_levels = EmptyDict
    /\ IncompletePlanObjectives(U1, ctx["s1"].use_sqlite) # {}

(***************************************************************************)
(* SharedSpec: two TutorSystems built for the same user before either has  *)
(* saved anything (two processes, or a second /setup while the first       *)
(* tutor is still in use), each recording plans for its own objective.     *)
(***************************************************************************)
SharedObjectives == {"Algebra", "Biology"}

SharedInit ==
    \E use_sqlite \in BOOLEAN :
        /\ now = 1
        /\ uuid_counter = 0
        /\ json_files = EmptyDict
        /\ db = EmptyDb
        /\ ctx = [x \in {"s1", "s2"} |-> NewContext(U1, use_sqlite)]
        /\ runs = EmptyDict
        /\ background_tasks = EmptyDict
        /\ threads = EmptyDict

SharedSaveStudyPlan ==
    \E s \in {"s1", "s2"}, o \in SharedObjectives, plan \in Plans : SaveStudyPlan(s, o, plan, TRUE)
SharedSaveQuizResults ==
    \E s \in {"s1", "s2"} : SaveQuizResults(s, T1, MasteryThreshold, TRUE)

SharedNext ==
    \/ SharedSaveStudyPlan
    \/ SharedSaveQuizResults
    \/ Tick

SharedSpec == SharedInit /\ [][SharedNext]_vars

\* the position of an objective id in the order the ids were handed out
CreationOrder(oid) == CHOOSE n \in 1..(uuid_counter + 1) : Uuid4(n) = oid

\* C18: when the stored record of a user holds several objectives (with
\* distinct creation timestamps), the session load selects the objective
\* that was created last.
C18_MostRecentSelection ==
    \A use_sqlite \in BOOLEAN :
        LET objs == Get(load_user_progress(Store, use_sqlite, U1), "learning_objectives", EmptyDict)
            last == CHOOSE o \in DOMAIN objs : \A other \in DOMAIN objs : CreationOrder(other) <= CreationOrder(o)
        IN  (/\ Cardinality(DOMAIN objs) >= 2
             /\ \A a, b \in DOMAIN objs : a # b => objs[a]["created_at"] # objs[b]["created_at"])
            => \A l \in Loaded(U1, use_sqlite, Store) : l.objective_id = Some(last)

(***************************************************************************)
(* NewUserSpec: one user works in a session while a TutorSystem is built   *)
(* for a second user who has never saved anything.                         *)
(***************************************************************************)
U2 == <<"u2">>

\* TutorSystem(user_id, use_sqlite=...) is constructed as session s
ConstructTutorSystem(s, user_id, use_sqlite) ==
    /\ s \notin DOMAIN ctx
    /\ \E c \in Loaded(user_id, use_sqlite, Store) : ctx' = Put(ctx, s, c)
    /\ UNCHANGED <<now, uuid_counter, json_files, db, runs, background_tasks, threads>>

NewUserConstruct == ConstructTutorSystem("s2", U2, ctx["s1"].use_sqlite)

NewUserNext ==
    \/ SessionCreateStudyPlan
    \/ SessionSaveStudyPlan
    \/ SessionSaveQuizResults
    \/ SessionStoreQuizAnswers
    \/ SessionNewTutorSystem
    \/ NewUserConstruct

NewUserSpec == SessionInit /\ [][NewUserNext]_vars

\* nothing was ever stored for the user on the backend
NoStoredData(user_id, use_sqlite) ==
    IF use_sqlite THEN ~Has(db.users, user_id)
    ELSE ~Has(json_files, _get_user_json_path(user_id))

\* C19: for a user with no stored data load_user_progress returns the empty
\* structure and a session constructed for the user is empty, on either
\* backend.
C19_NoPriorData ==
    /\ \A user_id \in {U1, U2}, use_sqlite \in BOOLEAN :
          NoStoredData(user_id, use_sqlite) =>
              /\ load_user_progress(Store, use_sqlite, user_id) = EmptyDict
              /\ Loaded(user_id, use_sqlite, Store) = {NewContext(user_id, use_sqlite)}
    /\ \A s \in DOMAIN ctx :
          (s = "s2" /\ NoStoredData(ctx[s].user_id, ctx[s].use_sqlite)) =>
              /\ IsNone(ctx[s].objective_id) /\ IsNone(ctx[s].learning_objective)
              /\ IsNone(ctx[s].study_plan)
              /\ ctx[s].mastery_levels = EmptyDict /\ ctx[s].completed_topics = <<>>

\* a session was constructed for the second user while the first user's
\* record is in the store
C19_Witness ==
    /\ "s2" \in DOMAIN ctx
    /\ ctx["s2"] = NewContext(U2, ctx["s1"].use_sqlite)
    /\ ~NoStoredData(U1, ctx["s1"].use_sqlite)
    /\ load_user_progress(Store, ctx["s1"].use_sqlite, U1) # EmptyDict

(***************************************************************************)
(* FaultSpec: the session's operations over a store whose writes may fail  *)
(* (io_ok = FALSE: open() or sqlite3 raises inside the store's try block;  *)
(* a quiz holding QuizQuestion objects makes json.dumps raise).            *)
(***************************************************************************)
FaultScore == MasteryThreshold

FaultSaveStudyPlan == \E o \in Objectives, io_ok \in BOOLEAN : SaveStudyPlan("s1", o, PlanT1, io_ok)
FaultSaveQuizResults == \E io_ok \in BOOLEAN : SaveQuizResults("s1", T1, FaultScore, io_ok)
FaultStoreQuizAnswers ==
    \E attempt \in Attempts, io_ok \in BOOLEAN : StoreQuizAnswers("s1", T1, attempt[1], attempt[2], io_ok)
FaultMarkLearningComplete == \E io_ok \in BOOLEAN : MarkLearningComplete("s1", io_ok)

FaultNext ==
    \/ SessionCreateStudyPlan
    \/ FaultSaveStudyPlan
    \/ FaultSaveQuizResults
    \/ FaultStoreQuizAnswers
    \/ FaultMarkLearningComplete
    \/ SessionNewTutorSystem

FaultSpec == SessionInit /\ [][FaultNext]_vars

\* the record the session would write now, and the outcome of writing it
SaveOutcome(s, io_ok) ==
    save_user_progress(Store, ctx[s].use_sqlite, ctx[s].user_id,
                       ContextUserData(ctx[s], Val(ctx[s].objective_id), now), now, io_ok)

\* the store as the session left it holds no valid record of the user
NothingReadable(s) == load_user_progress(Store, ctx[s].use_sqlite, ctx[s].user_id) = EmptyDict

\* C20: a failing store write is answered by False from save_user_progress,
\* and the operation that triggered it (save_study_plan, update_mastery_level
\* through save_quiz_results, store_quiz_answers, mark_learning_complete)
\* completes with its in-memory update in the session; a failing write of
\* mark_learning_complete leaves what the session reads back as it was; the
\* session then still accepts its operations.
C20_DegradesNotCrashes ==
    /\ [](IsSome(ctx["s1"].objective_id) =>
            /\ ~SaveOutcome("s1", FALSE).ok
            /\ LET st == mark_learning_complete(ctx["s1"], Store, now, FALSE)
               IN  load_user_progress(st, ctx["s1"].use_sqlite, U1)
                       = load_user_progress(Store, ctx["s1"].use_sqlite, U1))
    /\ [][/\ \A o \in Objectives :
                (SaveStudyPlan("s1", o, PlanT1, FALSE)
                 \/ (SaveStudyPlan("s1", o, PlanT1, TRUE)
                     /\ ~save_study_plan_tool(ctx["s1"], Store, o, PlanT1, now, TRUE, uuid_counter).ok))
                => /\ ctx'["s1"].learning_objective = Some(o)
                   /\ ctx'["s1"].study_plan = Some(PlanT1)
          /\ (SaveQuizResults("s1", T1, FaultScore, FALSE)
              \/ (SaveQuizResults("s1", T1, FaultScore, TRUE)
                  /\ ~save_quiz_results_tool(ctx["s1"], Store, T1, FaultScore, now, TRUE, uuid_counter).ok))
                => /\ Get(ctx'["s1"].mastery_levels, T1, -1) = FaultScore
                   /\ InSeq(T1, ctx'["s1"].completed_topics)
          /\ \A attempt \in Attempts :
                LET quiz == Quiz(T1, attempt[1], "10 minutes")
                IN  (StoreQuizAnswers("s1", T1, attempt[1], attempt[2], FALSE)
                     \/ (StoreQuizAnswers("s1", T1, attempt[1], attempt[2], TRUE)
                         /\ ~store_quiz_answers(ctx["s1"], Store, quiz, attempt[2], now, TRUE, uuid_counter).ok))
                    => /\ Get(ctx'["s1"].quiz_results, T1, EmptyDict)
                            = [quiz |-> quiz, user_answers |-> attempt[2]]
                       /\ ctx'["s1"].current_quiz = Some(quiz)
                       /\ ctx'["s1"].current_user_answers = Some(attempt[2])
       ]_vars
    /\ [](uuid_counter < MaxUuids =>
            /\ ENABLED FaultSaveStudyPlan
            /\ ENABLED FaultSaveQuizResults
            /\ ENABLED FaultStoreQuizAnswers
            /\ ENABLED MarkLearningComplete("s1", FALSE))

\* every write of the session failed, and the session holds the objective,
\* the plan, the mastery entry and the quiz in memory
C20_Witness ==
    /\ IsSome(ctx["s1"].objective_id)
    /\ NothingReadable("s1")
    /\ ctx["s1"].study_plan = Some(PlanT1)
    /\ Get(ctx["s1"].mastery_levels, T1, -1) = FaultScore
    /\ Has(ctx["s1"].quiz_results, T1)

(***************************************************************************)
(* CompleteSpec: two TutorSystems of one user record plans for their       *)
(* objectives and mark them complete while the clock advances.             *)
(***************************************************************************)
CompleteSaveStudyPlan ==
    \E s \in {"s1", "s2"}, o \in SharedObjectives : SaveStudyPlan(s, o, PlanT1, TRUE)
CompleteSaveQuizResults ==
    \E s \in {"s1", "s2"} : SaveQuizResults(s, T1, MasteryThreshold, TRUE)
CompleteMarkLearningComplete == \E s \in {"s1", "s2"} : MarkLearningComplete(s, TRUE)

CompleteNext ==
    \/ CompleteSaveStudyPlan
    \/ CompleteSaveQuizResults
    \/ CompleteMarkLearningComplete
    \/ Tick

CompleteSpec == SharedInit /\ [][CompleteNext]_vars

\* the objectives of the user's stored record, as a load returns them
StoredObjectivesOf(st, use_sqlite, user_id) ==
    Get(load_user_progress(st, use_sqlite, user_id), "learning_objectives", EmptyDict)

\* an objective without its completion timestamp
WithoutCompletion(o) == [k \in (DOMAIN o) \ {"completed_at"} |-> o[k]]

\* C21: mark_learning_complete leaves the session as it is; with no active
\* objective it leaves the store as it is; otherwise the stored objectives
\* are the same ones, every other objective is unchanged and the active
\* objective differs in its completion timestamp only.
C21_CompletionFrame ==
    [][\A s \in {"s1", "s2"} :
          MarkLearningComplete(s, TRUE) =>
              LET before == StoredObjectivesOf(Store, ctx[s].use_sqlite, ctx[s].user_id)
                  after == StoredObjectivesOf(Store, ctx[s].use_sqlite, ctx[s].user_id)'
              IN  /\ ctx' = ctx
                  /\ IsNone(ctx[s].objective_id) => (json_files' = json_files /\ db' = db)
                  /\ DOMAIN after = DOMAIN before
                  /\ \A oid \in DOMAIN before :
                        IF Some(oid) = ctx[s].objective_id
                        THEN /\ WithoutCompletion(after[oid]) = WithoutCompletion(before[oid])
                             /\ after[oid]["completed_at"] = Some(now)
                        ELSE after[oid] = before[oid]
      ]_vars

(***************************************************************************)
(* QuizSpec: a session with a plan records quiz attempts on two topics and *)
(* quiz scores, and is rebuilt from the store.                             *)
(***************************************************************************)
\* <<questions as the caller passes them, user answers>>
QuizAttempts ==
    { << <<>>, [k \in {IntKey(0)} |-> "A"] >>,
      << <<>>, [k \in {IntKey(0)} |-> "B"] >>,
      << <<Question1>>, [k \in {IntKey(0)} |-> "A"] >> }

QuizSaveStudyPlan == \E o \in Objectives : SaveStudyPlan("s1", o, AlgebraPlan, TRUE)
QuizSaveQuizResults == \E topic \in Topics : SaveQuizResults("s1", topic, MasteryThreshold, TRUE)
QuizStoreQuizAnswers ==
    \E topic \in Topics, attempt \in QuizAttempts : StoreQuizAnswers("s1", topic, attempt[1], attempt[2], TRUE)

QuizNext ==
    \/ QuizSaveStudyPlan
    \/ QuizSaveQuizResults
    \/ QuizStoreQuizAnswers
    \/ SessionNewTutorSystem

QuizSpec == SessionInit /\ [][QuizNext]_vars

\* C22: store_quiz_answers puts the attempt under the quiz's topic in the
\* session, in place of any earlier attempt for the topic, leaves the
\* attempts of other topics as they are and changes neither mastery_levels
\* nor completed_topics.
C22_AttemptKeyedByTopic ==
    [][\A topic \in Topics, attempt \in QuizAttempts :
          StoreQuizAnswers("s1", topic, attempt[1], attempt[2], TRUE) =>
              LET quiz == Quiz(topic, attempt[1], "10 minutes")
                  before == ctx["s1"]
                  after == ctx'["s1"]
              IN  /\ DOMAIN after.quiz_results = DOMAIN before.quiz_results \cup {topic}
                  /\ after.quiz_results[topic] = [quiz |-> quiz, user_answers |-> attempt[2]]
                  /\ \A other \in DOMAIN before.quiz_results :
                        other # topic => after.quiz_results[other] = before.quiz_results[other]
                  /\ after.mastery_levels = before.mastery_levels
                  /\ after.completed_topics = before.completed_topics
      ]_vars

\* a second attempt on a topic has taken the place of the first while the
\* session holds a mastery level, a completed topic and another topic's attempt
C22_Witness ==
    /\ Has(ctx["s1"].quiz_results, T1) /\ Has(ctx["s1"].quiz_results, T2)
    /\ ctx["s1"].quiz_results[T1].user_answers = [k \in {IntKey(0)} |-> "B"]
    /\ ctx["s1"].quiz_results[T2].user_answers = [k \in {IntKey(0)} |-> "A"]
    /\ ctx["s1"].current_user_answers = Some([k \in {IntKey(0)} |-> "B"])
    /\ Has(ctx["s1"].mastery_levels, T1)
    /\ InSeq(T1, ctx["s1"].completed_topics)

\* the attempts the store holds for a topic of the user: <<objective id, quiz id, entry>>
StoredAttempts(st, use_sqlite, user_id, topic) ==
    LET objs == StoredObjectivesOf(st, use_sqlite, user_id)
    IN  UNION { { <<oid, qid, objs[oid]["quizzes"][qid]>> :
                    qid \in {q \in DOMAIN Get(objs[oid], "quizzes", EmptyDict) :
                                Get(objs[oid]["quizzes"][q], "topic", <<>>) = topic} } :
                oid \in DOMAIN objs }

\* C23: every attempt recorded and written to the store adds an entry to the
\* stored attempts of its topic and leaves the attempts stored before in
\* place.
C23_AttemptHistoryAccumulates ==
    [][\A topic \in Topics, attempt \in QuizAttempts :
          (/\ StoreQuizAnswers("s1", topic, attempt[1], attempt[2], TRUE)
           /\ store_quiz_answers(ctx["s1"], Store, Quiz(topic, attempt[1], "10 minutes"),
                                 attempt[2], now, TRUE, uuid_counter).ok)
          => LET before == StoredAttempts(Store, ctx["s1"].use_sqlite, U1, topic)
                 after == StoredAttempts(Store, ctx["s1"].use_sqlite, U1, topic)'
             IN  /\ before \subseteq after
                 /\ Cardinality(after) = Cardinality(before) + 1
      ]_vars

(***************************************************************************)
(* PlanSpec: one session records and revises study plans, under one title  *)
(* or another, while the clock advances, and is rebuilt from the store.    *)
(***************************************************************************)
PlanSaveStudyPlan == \E o \in SharedObjectives, plan \in Plans : SaveStudyPlan("s1", o, plan, TRUE)

PlanNext ==
    \/ PlanSaveStudyPlan
    \/ SessionNewTutorSystem
    \/ Tick

PlanSpec == SessionInit /\ [][PlanNext]_vars

\* every objective id in the store, of any user on either backend
StoredIds ==
    (DOMAIN db.learning_objectives)
        \cup UNION {ObjectiveIds(json_files[f].doc) : f \in DOMAIN json_files}

\* the plan fields of a stored plan
PlanFieldsOf(stored) == [k \in RequiredFields |-> stored[k]]

C25_ObjectiveImmutable ==
    [][LET before == StoredObjectivesOf(Store, ctx["s1"].use_sqlite, U1)
           after == StoredObjectivesOf(Store, ctx["s1"].use_sqlite, U1)'
       IN  \A oid \in DOMAIN before :
              /\ oid \in DOMAIN after
              /\ after[oid]["title"] = before[oid]["title"]
              /\ after[oid]["created_at"] = before[oid]["created_at"]
      ]_vars

(***************************************************************************)
(* UpsertSpec: the sessions of QuizSpec with the clock advancing, for the  *)
(* rows the relational backend keeps.                                      *)
(***************************************************************************)
UpsertSaveStudyPlan == \E o \in Objectives : SaveStudyPlan("s1", o, PlanT1, TRUE)
UpsertSaveQuizResults == SaveQuizResults("s1", T1, MasteryThreshold, TRUE)
UpsertStoreQuizAnswers ==
    \E attempt \in QuizAttempts : StoreQuizAnswers("s1", T1, attempt[1], attempt[2], TRUE)

UpsertNext ==
    \/ UpsertSaveStudyPlan
    \/ UpsertSaveQuizResults
    \/ UpsertStoreQuizAnswers
    \/ SessionNewTutorSystem
    \/ Tick

UpsertSpec == SessionInit /\ [][UpsertNext]_vars

\* no two rows of a table stand for the same logical entity
OneRowPerEntity ==
    /\ \A a, b \in DOMAIN db.study_plans :
          db.study_plans[a].objective_id = db.study_plans[b].objective_id => a = b
    /\ \A a, b \in DOMAIN db.topic_progress :
          (/\ db.topic_progress[a].user_id = db.topic_progress[b].user_id
           /\ db.topic_progress[a].objective_id = db.topic_progress[b].objective_id
           /\ db.topic_progress[a].topic = db.topic_progress[b].topic) => a = b
    /\ \A a, b \in DOMAIN db.quiz_results :
          db.quiz_results[a].quiz_id = db.quiz_results[b].quiz_id => a = b

\* the record the session writes on a save is what a load returns for the
\* entities of the record (relational backend, encodable record)
LatestReturned ==
    LET c == ctx["s1"] IN
    (c.use_sqlite /\ IsSome(c.objective_id)
        /\ SqliteEncodable(ContextUserData(c, Val(c.objective_id), now))) =>
        LET oid == Val(c.objective_id)
            o == ContextUserData(c, oid, now)["learning_objectives"][oid]
            l == StoredObjectivesOf(Store, TRUE, c.user_id)
        IN  /\ oid \in DOMAIN l
            /\ l[oid]["title"] = o["title"]
            /\ l[oid]["created_at"] = o["created_at"]
            /\ Has(l[oid], "study_plan")
            /\ o["study_plan"] # EmptyDict => PlanFieldsOf(l[oid]["study_plan"]) = o["study_plan"]
            /\ l[oid]["study_plan"]["updated_at"] = now
            /\ \A topic \in DOMAIN o["topic_progress"] :
                  /\ Has(l[oid]["topic_progress"], topic)
                  /\ l[oid]["topic_progress"][topic]["mastery_level"] = o["topic_progress"][topic]["mastery_level"]
                  /\ l[oid]["topic_progress"][topic]["completed"] = o["topic_progress"][topic]["completed"]
            /\ \A qid \in DOMAIN o["quizzes"] :
                  /\ Has(l[oid]["quizzes"], qid)
                  /\ l[oid]["quizzes"][qid]["topic"] = o["quizzes"][qid]["topic"]
                  /\ l[oid]["quizzes"][qid]["questions"] = o["quizzes"][qid]["questions"]
                  /\ l[oid]["quizzes"][qid]["results"]["answers"]
                        = JsonAnswers(o["quizzes"][qid]["results"]["answers"])

\* C26: on the relational backend no table ever holds two rows for the same
\* logical entity, and after every save a load returns the values of that
\* save for the entities it wrote.
C26_RelationalUpsert ==
    /\ []OneRowPerEntity
    /\ [][(UpsertSaveStudyPlan \/ UpsertSaveQuizResults \/ UpsertStoreQuizAnswers) => LatestReturned']_vars

\* the rows of the objective, its plan, a topic's progress, a quiz and its
\* result have been written again at a later time than the user's first save
C26_Witness ==
    /\ ctx["s1"].use_sqlite
    /\ now = 2
    /\ Has(db.users, U1) /\ db.users[U1].created_at = 1
    /\ \E k \in DOMAIN db.study_plans : db.study_plans[k].updated_at = 2
    /\ \E k \in DOMAIN db.learning_objectives : db.learning_objectives[k].created_at = 2
    /\ \E k \in DOMAIN db.topic_progress : db.topic_progress[k].mastery_level = MasteryThreshold
    /\ \E k \in DOMAIN db.quiz_results :
          /\ db.quiz_results[k].answers = [x \in {StrKey(0)} |-> "B"]
          /\ db.quiz_results[k].score = MasteryThreshold

(***************************************************************************)
(* DocSpec: the flat-file store alone.  Documents of one or two            *)
(* objectives, as save_progress and mark_learning_complete build them,     *)
(* are saved for two users one after another.                                *)
(***************************************************************************)
DocAnswerKeys == {"none", "int", "str"}

\* the 'quizzes' dict of a document: no attempt, or one whose answers are
\* keyed by int (Dict[int, str], as the session holds them) or by str
DocQuizzes(kind) ==
    IF kind = "none" THEN EmptyDict
    ELSE [qid \in {Cat(Cat(U1, T1), <<"quiz">>)} |->
            [topic |-> T1, questions |-> <<>>,
             results |-> [answers |-> [k \in {IF kind = "int" THEN IntKey(0) ELSE StrKey(0)} |-> "A"]]]]

DocObjectives ==
    {[title |-> Some(title), description |-> Some(title), created_at |-> 1,
      study_plan |-> [topics |-> PlanT1.topics, learning_path |-> PlanT1.learning_path,
                      estimated_time |-> PlanT1.estimated_time,
                      prerequisites |-> PlanT1.prerequisites],
      topic_progress |-> [topic \in {T1} |-> [mastery_level |-> MasteryThreshold, completed |-> TRUE]],
      quizzes |-> DocQuizzes(kind)] : title \in Objectives, kind \in DocAnswerKeys}

Docs ==
    {[learning_objectives |-> objs] :
        objs \in UNION {[ids -> DocObjectives] : ids \in (SUBSET {Uuid4(1), Uuid4(2)}) \ {{}}}}

\* UserProgressStore(use_sqlite=False).save_user_progress(user_id, data)
SaveUserProgress(user_id, data) ==
    /\ json_files' = save_user_progress(Store, FALSE, user_id, data, now, TRUE).store.json_files
    /\ UNCHANGED <<now, uuid_counter, db, ctx, runs, background_tasks, threads>>

DocInit ==
    /\ now = 1
    /\ uuid_counter = 0
    /\ json_files = EmptyDict
    /\ db = EmptyDb
    /\ ctx = [x \in {"s1"} |-> NewContext(U1, FALSE)]
    /\ runs = EmptyDict
    /\ background_tasks = EmptyDict
    /\ threads = EmptyDict

DocSave == \E user_id \in {U1, U2}, data \in Docs : SaveUserProgress(user_id, data)

DocNext == DocSave \/ Tick

DocSpec == DocInit /\ [][DocNext]_vars

\* C27: after a successful flat-file save of document d for the user, the
\* load returns d with the last_updated stamp of the save and nothing else.
C27_WholeDocumentOverwrite ==
    [][\A user_id \in {U1, U2}, data \in Docs :
          (SaveUserProgress(user_id, data)
           /\ save_user_progress(Store, FALSE, user_id, data, now, TRUE).ok)
          => load_user_progress(Store, FALSE, user_id)' = Put(data, "last_updated", now)
      ]_vars

(***************************************************************************)
(* IsolationSpec: the sessions of two different users work against the     *)
(* same store, their operations interleaved.  User ids and topic names are *)
(* free text (--user-id, the form field, the planner's topics); a string   *)
(* is the sequence of its pieces between underscores.                      *)
(***************************************************************************)
\* the users "u1" and "u1_x"
U1x == <<"u1", "_", "x">>
\* the topic "x_T1"
xT1 == <<"x", "_", "T1">>

IsolationTopics(s) == IF s = "s1" THEN {T1, xT1} ELSE {T1}

IsolationInit ==
    \E use_sqlite \in BOOLEAN :
        /\ now = 1
        /\ uuid_counter = 0
        /\ json_files = EmptyDict
        /\ db = EmptyDb
        /\ ctx = [x \in {"s1", "s2"} |-> NewContext(IF x = "s1" THEN U1 ELSE U1x, use_sqlite)]
        /\ runs = EmptyDict
        /\ background_tasks = EmptyDict
        /\ threads = EmptyDict

IsolationSaveStudyPlan(s) == \E o \in Objectives : SaveStudyPlan(s, o, PlanT1, TRUE)
IsolationSaveQuizResults(s) == SaveQuizResults(s, T1, MasteryThreshold, TRUE)
IsolationStoreQuizAnswers(s) ==
    \E topic \in IsolationTopics(s), answer \in {"A", "B"} :
        StoreQuizAnswers(s, topic, <<>>, [k \in {StrKey(0)} |-> answer], TRUE)

\* an operation of session s
IsolationStep(s) ==
    \/ IsolationSaveStudyPlan(s)
    \/ IsolationSaveQuizResults(s)
    \/ IsolationStoreQuizAnswers(s)

IsolationNext == \E s \in {"s1", "s2"} : IsolationStep(s)

IsolationSpec == IsolationInit /\ [][IsolationNext]_vars

\* C28: no operation of the session of one user changes what
\* load_user_progress returns for the other user.
C28_UserIsolation ==
    [][\A s \in {"s1", "s2"}, other \in {U1, U1x} :
          (IsolationStep(s) /\ other # ctx[s].user_id)
          => load_user_progress(Store, ctx[s].use_sqlite, other)'
                = load_user_progress(Store, ctx[s].use_sqlite, other)
      ]_vars

(***************************************************************************)
(* WriterSpec: two writers of one user's record call                       *)
(* UserProgressStore.update_topic_mastery at the same time.  The method    *)
(* loads the record, changes one topic and saves the record; nothing       *)
(* holds the store between its load and its save.  threads maps a writer   *)
(* to its position in the method, to the record it has loaded and, once it *)
(* has returned, to its place in the order of returns.                     *)
(***************************************************************************)
Writers == {"w1", "w2"}

\* update_topic_mastery up to its load_user_progress
WriterLoads(w, topic, mastery_level) ==
    /\ w \notin DOMAIN threads
    /\ threads' = Put(threads, w,
                      [pc |-> "loaded", topic |-> topic, mastery_level |-> mastery_level, order |-> 0,
                       data |-> load_user_progress(Store, ctx["s1"].use_sqlite, U1)])
    /\ UNCHANGED <<now, uuid_counter, json_files, db, ctx, runs, background_tasks>>

\* the record update_topic_mastery saves: the loaded one with the topic's
\* progress replaced; None when the objective is not in the loaded record
TopicMasteryData(data, objective_id, topic, mastery_level, completed, t) ==
    LET objs == Get(data, "learning_objectives", EmptyDict)
    IN  IF ~Has(objs, objective_id) THEN None
        ELSE LET progress == Get(objs[objective_id], "topic_progress", EmptyDict)
                 entry == [mastery_level |-> mastery_level, completed |-> completed, last_studied |-> t]
             IN  Some(Put(data, "learning_objectives",
                          Put(objs, objective_id,
                              Put(objs[objective_id], "topic_progress", Put(progress, topic, entry)))))

\* update_topic_mastery from the update of the loaded record to its return
WriterSaves(w) ==
    /\ w \in DOMAIN threads
    /\ threads[w].pc = "loaded"
    /\ LET new == TopicMasteryData(threads[w].data, Val(ctx["s1"].objective_id), threads[w].topic,
                                   threads[w].mastery_level, FALSE, now)
           r == IF IsNone(new) THEN [store |-> Store, ok |-> FALSE]
                ELSE save_user_progress(Store, ctx["s1"].use_sqlite, U1, Val(new), now, TRUE)
       IN  /\ json_files' = r.store.json_files
           /\ db' = r.store.db
           /\ threads' = [threads EXCEPT ![w].pc = "returned", ![w].data = EmptyDict,
                                         ![w].order = Cardinality({x \in DOMAIN threads : threads[x].pc = "returned"}) + 1]
    /\ UNCHANGED <<now, uuid_counter, ctx, runs, background_tasks>>

WriterBegins == \E w \in Writers, topic \in Topics, x \in PolicyScores : WriterLoads(w, topic, x)
WriterEnds == \E w \in Writers : WriterSaves(w)

WriterNext == WriterBegins \/ WriterEnds

WriterSpec == PolicyInit /\ [][WriterNext]_vars

\* the stored mastery level of a topic of the session's objective
StoredMastery(topic) ==
    LET objs == StoredObjectivesOf(Store, ctx["s1"].use_sqlite, U1)
        oid == Val(ctx["s1"].objective_id)
    IN  Get(Get(Get(objs, oid, EmptyDict), "topic_progress", EmptyDict), topic, [mastery_level |-> -1]).mastery_level

\* the writers that have returned from a write of the topic
Returned(topic) == {w \in DOMAIN threads : threads[w].pc = "returned" /\ threads[w].topic = topic}

\* C29: on the relational backend, once two concurrent writes of the mastery
\* of two different topics of one objective have both returned, the store
\* holds both levels; on either backend the stored mastery of a topic is the
\* level of the write of that topic that returned last.
C29_ConcurrentWritesSerialized ==
    /\ (/\ ctx["s1"].use_sqlite
        /\ \A w \in Writers : w \in DOMAIN threads /\ threads[w].pc = "returned"
        /\ threads["w1"].topic # threads["w2"].topic)
       => \A w \in Writers : StoredMastery(threads[w].topic) = threads[w].mastery_level
    /\ \A topic \in Topics :
          Returned(topic) # {} =>
              LET last == CHOOSE w \in Returned(topic) :
                              \A x \in Returned(topic) : threads[x].order <= threads[w].order
              IN  StoredMastery(topic) = threads[last].mastery_level

(***************************************************************************)
(* CollabSpec: the collaborators of one session fail or succeed.           *)
(* setup_knowledge_base is called once with any outcome of the vector      *)
(* store creation and of each upload, a plan is saved, and                 *)
(* complete_learning_objective runs with an agent invocation that may      *)
(* raise at the first or at a later invocation.                            *)
(***************************************************************************)
MaxFiles == 2
VectorStoreResults == {None, Some("vs_1")}
\* what upload_file_to_store gives for one path: no id, or an id
UploadResults == {None, Some("file_1")}
UploadSeqs == UNION {[1..n -> UploadResults] : n \in 0..MaxFiles}

\* setup_knowledge_base (tutor_system.py 190-237) on session c, given what
\* create_vector_store and the uploads return
setup_knowledge_base(c, vector_store_result, upload_results) ==
    IF ~Truthy(vector_store_result)
    THEN [ctx |-> c, returned |-> None, raised |-> Some("ValueError")]
    ELSE LET c1 == [c EXCEPT !.vector_store_id = vector_store_result]
             file_ids == SelectSeq(upload_results, Truthy)
         IN  IF file_ids = <<>>
             THEN [ctx |-> c1, returned |-> None, raised |-> Some("ValueError")]
             ELSE [ctx |-> c1,
                   returned |-> Some([vector_store_id |-> Val(vector_store_result),
                                      file_ids |-> [i \in DOMAIN file_ids |-> Val(file_ids[i])]]),
                   raised |-> None]

\* the call of setup_knowledge_base as its caller sees it
KnowledgeBaseCall(session, out) ==
    [FailedRun(session, 0, "ValueError") EXCEPT
        !.pc = IF IsSome(out.raised) THEN "raised" ELSE "done",
        !.returned = out.returned,
        !.raised = out.raised]

SetupKnowledgeBase(rid, s, vector_store_result, upload_results) ==
    /\ rid \notin DOMAIN runs
    /\ s \in DOMAIN ctx
    /\ LET out == setup_knowledge_base(ctx[s], vector_store_result, upload_results)
       IN  /\ ctx' = [ctx EXCEPT ![s] = out.ctx]
           /\ runs' = Put(runs, rid, KnowledgeBaseCall(s, out))
    /\ UNCHANGED <<now, uuid_counter, json_files, db, background_tasks, threads>>

CollabResults ==
    {[final_output |-> t, handoff_info |-> h] :
        t \in Texts,
        h \in {None, Some([target_agent |-> Teacher, handoff_message |-> <<"teach T1">>])}}

CollabSetupKnowledgeBase ==
    \E v \in VectorStoreResults, u \in UploadSeqs : SetupKnowledgeBase("kb", "s1", v, u)
CollabSaveStudyPlan == ~Started /\ \E o \in Objectives : SaveStudyPlan("s1", o, AlgebraPlan, TRUE)
CollabStart == StartRun("cli", "s1", DefaultMaxTurns)
CollabRunnerReturns == \E r \in CollabResults : RunnerReturns("cli", r, TRUE)
CollabRunnerRaises == RunnerRaises("cli", "AgentsException")

CollabNext ==
    \/ CollabSetupKnowledgeBase
    \/ CollabSaveStudyPlan
    \/ CollabStart
    \/ CollabRunnerReturns
    \/ CollabRunnerRaises

CollabSpec == SessionInit /\ [][CollabNext]_vars

\* the stored objectives of the session's user that carry a completion timestamp
CompletedStored(s) ==
    LET objs == StoredObjectivesOf(Store, ctx[s].use_sqlite, ctx[s].user_id)
    IN  {oid \in DOMAIN objs : IsSome(Get(objs[oid], "completed_at", None))}

\* C30: a call that ended with an error returned no result dictionary and made
\* no completion call; an agent invocation that raises ends the run with that
\* error and leaves the store as it was, so no completion is recorded for the
\* run; knowledge ingestion that yields no store identifier, or no uploaded
\* file, ends with an error and without a result dictionary.
C30_CollaboratorFailureIsHard ==
    /\ [](\A rid \in DOMAIN runs :
            runs[rid].pc = "raised" =>
                /\ IsSome(runs[rid].raised)
                /\ IsNone(runs[rid].returned)
                /\ runs[rid].mark_calls = 0)
    /\ []((Started /\ Run.pc = "raised") => CompletedStored("s1") = {})
    /\ [][CollabRunnerRaises =>
            /\ runs'["cli"].pc = "raised"
            /\ runs'["cli"].raised = Some("AgentsException")
            /\ IsNone(runs'["cli"].returned)
            /\ runs'["cli"].mark_calls = 0
            /\ json_files' = json_files /\ db' = db /\ ctx' = ctx]_vars
    /\ [][\A v \in VectorStoreResults, u \in UploadSeqs :
            (SetupKnowledgeBase("kb", "s1", v, u) /\ (IsNone(v) \/ \A i \in DOMAIN u : IsNone(u[i]))) =>
                /\ runs'["kb"].pc = "raised"
                /\ IsSome(runs'["kb"].raised)
                /\ IsNone(runs'["kb"].returned)
                /\ runs'["kb"].mark_calls = 0
                /\ json_files' = json_files /\ db' = db]_vars

\* an invocation raised after an earlier result of the same run carried the
\* completion marker, with an objective stored, and ingestion failed for want
\* of an uploaded file after the vector store had been created
C30_Witness ==
    /\ Started /\ Run.pc = "raised"
    /\ Run.raised = Some("AgentsException")
    /\ SomeResultHasMarker(Run)
    /\ StoredObjectivesOf(Store, ctx["s1"].use_sqlite, ctx["s1"].user_id) # EmptyDict
    /\ "kb" \in DOMAIN runs /\ runs["kb"].pc = "raised"
    /\ IsSome(ctx["s1"].vector_store_id)

(***************************************************************************)
(* OrderSpec: one run of complete_learning_objective in which every result *)
(* says which invocation produced it (the agent run and the input it was   *)
(* given), so that the place of a result in the output can be compared     *)
(* with the place of its invocation in the chain.                          *)
(***************************************************************************)
\* the final output of the invocation `call`
OutputOf(call) == <<"output of", call.starting_agent, "on">> \o call.input

OrderStart == StartRun("cli", "s1", DefaultMaxTurns)
OrderRunnerReturns ==
    /\ Started
    /\ IsSome(Run.awaiting)
    /\ \E h \in {x \in HandoffInfos : ValidHandoff(x)} :
          RunnerReturns("cli", [final_output |-> OutputOf(Val(Run.awaiting)), handoff_info |-> h], TRUE)
OrderRunnerRaises == RunnerRaises("cli", "AgentsException")

OrderNext == OrderStart \/ OrderRunnerReturns \/ OrderRunnerRaises

OrderSpec == ChainInit /\ [][OrderNext]_vars

\* the hops dispatched so far: every invocation after the first
Hops(run) == SubSeq(run.invoked, 2, Len(run.invoked))

\* C31: the i-th entry of handoff_results is the result of the i-th hop; every
\* hop is run on the agent the previous result names, with that result's
\* handoff message as input; handoff_results has one entry per hop that has
\* returned, and the returned output holds the initial result and exactly one
\* entry per hop performed, in the order of the hops.
C31_ResultsInInvocationOrder ==
    Started =>
        /\ \A i \in DOMAIN Run.handoff_results :
              /\ i \in DOMAIN Hops(Run)
              /\ Run.handoff_results[i].final_output = OutputOf(Hops(Run)[i])
        /\ IsSome(Run.initial_result) =>
              Val(Run.initial_result).final_output = OutputOf(Run.invoked[1])
        /\ \A i \in DOMAIN Hops(Run) :
              LET prev == ResultsOf(Run)[i] IN
              /\ IsSome(prev.handoff_info)
              /\ Hops(Run)[i].starting_agent = Val(prev.handoff_info).target_agent
              /\ Hops(Run)[i].input = Val(prev.handoff_info).handoff_message
        /\ Run.pc = "await_hop" => Len(Run.handoff_results) = Len(Hops(Run)) - 1
        /\ Run.pc = "raised" => Len(Hops(Run)) - Len(Run.handoff_results) \in {0, 1}
        /\ Done =>
              /\ Val(Run.returned).final_results.initial_result = Val(Run.initial_result)
              /\ Val(Run.returned).final_results.handoff_results = Run.handoff_results
              /\ Len(Val(Run.returned).final_results.handoff_results) = Len(Hops(Run))

\* a run has returned after three hops on three different agents
C31_Witness ==
    /\ Done
    /\ Len(Val(Run.returned).final_results.handoff_results) = 3
    /\ Cardinality({Hops(Run)[i].starting_agent : i \in DOMAIN Hops(Run)}) = 3

(***************************************************************************)
(* The session across a run of complete_learning_objective (FallbackSpec:  *)
(* the tools act before the run only, the agents of the run call none).    *)
(***************************************************************************)
\* the study plan, current topic, mastery map, completed topics, quiz state
\* and learning-session data of a session
SessionData(c) ==
    [study_plan |-> c.study_plan, current_topic |-> c.current_topic,
     mastery_levels |-> c.mastery_levels, completed_topics |-> c.completed_topics,
     current_quiz |-> c.current_quiz, current_user_answers |-> c.current_user_answers,
     quiz_results |-> c.quiz_results, learning_session |-> c.learning_session]

\* a step of the run: the call, and every return or raise of an invocation
RunStep == FallbackStart \/ FallbackRunnerReturns \/ FallbackRunnerRaises

\* C32: no step of a run of complete_learning_objective whose agents call no
\* tool changes the session's study plan, current topic, mastery map,
\* completed topics, quiz state or learning-session data (the completion call
\* writes to the store only), so they are the same after the run as before.
C32_RunLeavesSessionData ==
    [][RunStep => SessionData(ctx'["s1"]) = SessionData(ctx["s1"])]_vars

\* the session data a run does not prepare
Progress(c) ==
    [current_topic |-> c.current_topic,
     mastery_levels |-> c.mastery_levels, completed_topics |-> c.completed_topics,
     current_quiz |-> c.current_quiz, current_user_answers |-> c.current_user_answers,
     quiz_results |-> c.quiz_results]

\* C32 (amended): the call of complete_learning_objective changes the session
\* in its preparation only: a missing or topic-less study plan is replaced by
\* the default plan, an empty learning path is filled with the topics and
\* the learning-session data are initialised anew; a usable plan is kept, and
\* the current topic, mastery map, completed topics and quiz state are left
\* alone.  No return or raise of an invocation changes the session, the
\* completion call included.
C32_RunPreparesSessionOnly ==
    /\ [][FallbackStart =>
            LET c == ctx["s1"]
                d == ctx'["s1"]
            IN  IF ~Truthy(c.learning_objective) THEN d = c
                ELSE /\ Progress(d) = Progress(c)
                     /\ d.learning_objective = c.learning_objective
                     /\ d.objective_id = c.objective_id
                     /\ IF NoUsablePlan(c)
                        THEN Val(d.study_plan).topics = FourTopics /\ Val(d.study_plan).learning_path = FourTopics
                        ELSE IF Val(c.study_plan).learning_path = <<>>
                             THEN d.study_plan = Some([Val(c.study_plan) EXCEPT !.learning_path = Val(c.study_plan).topics])
                             ELSE d.study_plan = c.study_plan
                     /\ d.learning_session =
                            [learning_objective |-> c.learning_objective, initial_plan |-> d.study_plan,
                             topics_covered |-> <<>>, quiz_results |-> EmptyDict]]_vars
    /\ [][(FallbackRunnerReturns \/ FallbackRunnerRaises) => ctx' = ctx]_vars

\* a run has returned on a session that had a stored plan and a completed
\* topic before it, and the run initialised the learning-session data
C32_Witness ==
    /\ Done
    /\ ctx["s1"].completed_topics # <<>>
    /\ ~NoUsablePlan(ctx["s1"])
    /\ Val(ctx["s1"].study_plan).topics # FourTopics
    /\ ctx["s1"].learning_session # EmptyDict

\* how often the agent was invoked in the run, the first invocation included
Invocations(run, agent) ==
    Cardinality({i \in DOMAIN run.invoked : run.invoked[i].starting_agent = agent})

\* C33: no agent identity is a handoff target twice in a run, so
\* handoff_results never has more entries than there are agent identities;
\* with the invocation that produced the initial result, the first agent is
\* invoked at most twice and every other agent at most once.
C33_ChainLengthBound ==
    Started =>
        /\ \A i, j \in DOMAIN Hops(Run) :
              id(Hops(Run)[i].starting_agent) = id(Hops(Run)[j].starting_agent) => i = j
        /\ Run.agent_ids_seen = {id(Hops(Run)[i].starting_agent) : i \in DOMAIN Hops(Run)}
        /\ Len(Run.handoff_results) <= Cardinality(Agents)
        /\ Len(Hops(Run)) <= Cardinality(Agents)
        /\ \A agent \in Agents :
              Invocations(Run, agent) <= (IF Run.invoked # <<>> /\ agent = Run.invoked[1].starting_agent THEN 2 ELSE 1)

\* a returned run with as many hops as there are agents, its first agent
\* invoked twice
C33_Witness ==
    /\ Done
    /\ Len(Run.handoff_results) = Cardinality(Agents)
    /\ Invocations(Run, Run.invoked[1].starting_agent) = 2

\* C34: in the session, a topic with a mastery level is in completed_topics
\* iff that level is >= 0.7, and in every stored objective a topic's progress
\* entry is completed iff its stored mastery level is >= 0.7 (PolicySpec:
\* mastery is recorded through the save_quiz_results tool only).
C34_CompletionTracksLatestScore ==
    /\ \A topic \in DOMAIN ctx["s1"].mastery_levels :
          InSeq(topic, ctx["s1"].completed_topics) <=> ctx["s1"].mastery_levels[topic] >= MasteryThreshold
    /\ LET objs == StoredObjectivesOf(Store, ctx["s1"].use_sqlite, ctx["s1"].user_id) IN
       \A oid \in DOMAIN objs :
          \A topic \in DOMAIN objs[oid]["topic_progress"] :
             LET e == objs[oid]["topic_progress"][topic] IN
             e["completed"] <=> e["mastery_level"] >= MasteryThreshold

\* C35: an objective whose stored record carries a completion timestamp
\* still carries one after every later step of the user's sessions
\* (CompleteSpec: plans and quiz results are saved, objectives are marked
\* complete, on either backend).
C35_CompletionDurable ==
    [][\A oid \in CompletedStored("s1") : oid \in CompletedStored("s1")']_vars

\* the plan, progress and quizzes of a stored objective
ObjectiveContent(o) ==
    [study_plan |-> Get(o, "study_plan", None), topic_progress |-> Get(o, "topic_progress", None),
     quizzes |-> Get(o, "quizzes", None)]

\* the stored objectives of user u1 as a load returns them
Objs == StoredObjectivesOf(Store, ctx["s1"].use_sqlite, U1)

\* C36: after a save by a session (SharedSpec: save_study_plan or
\* update_mastery_level through the tools), every objective the user's load
\* returned before is still returned, and every objective other than the
\* session's own has the plan, progress and quizzes it had.
C36_SaveKeepsOtherObjectives ==
    [][\A s \in {"s1", "s2"} :
          ((\E o \in SharedObjectives, plan \in Plans : SaveStudyPlan(s, o, plan, TRUE))
              \/ SaveQuizResults(s, T1, MasteryThreshold, TRUE)) =>
          \A oid \in DOMAIN Objs :
              /\ oid \in DOMAIN Objs'
              /\ Some(oid) # ctx'[s].objective_id => ObjectiveContent(Objs'[oid]) = ObjectiveContent(Objs[oid])]_vars

\* C37: in WebSpec, under every interleaving of the request thread and the
\* worker thread of a task, an entry of background_tasks that says
\* 'completed' or 'error' keeps saying so, and once the worker has finished
\* the entry says 'completed' or 'error'.
C37_TaskStatusMonotone ==
    /\ [][\A task_id \in DOMAIN background_tasks :
            background_tasks[task_id].status \in {"completed", "error"} =>
                background_tasks'[task_id].status = background_tasks[task_id].status]_vars
    /\ [](\A task_id \in DOMAIN threads :
            threads[task_id].worker = "finished" =>
                /\ task_id \in DOMAIN background_tasks
                /\ background_tasks[task_id].status \in {"completed", "error"})

(***************************************************************************)
(* ResumeSpec: the command-line runner (run_tutor.py) for one user, over   *)
(* several processes.  A process builds a TutorSystem, which loads the     *)
(* user's stored objective; without one, or when the user declines to      *)
(* continue, it sets up the knowledge base, creates a study plan and then  *)
(* starts learning; with one it goes to the learning section at once.      *)
(* The agents of a TutorSystem are None until setup_knowledge_base has     *)
(* run _initialize_agents_with_tools on it (tutor_system.py 83-86, 232).   *)
(***************************************************************************)
\* Python's None where an agent object is expected
NoAgent == "None"

\* setup_knowledge_base has returned on the TutorSystem of this process
AgentsInitialized == "kb" \in DOMAIN runs /\ runs["kb"].pc = "done"

\* self.planner_with_tools
planner_with_tools == IF AgentsInitialized THEN Planner ELSE NoAgent

\* create_study_plan (tutor_system.py 239-277): the objective is set and the
\* planner is run once
CreateStudyPlanCall(rid, s, learning_objective) ==
    /\ rid \notin DOMAIN runs
    /\ ctx' = [ctx EXCEPT ![s].learning_objective = Some(learning_objective)]
    /\ runs' = Put(runs, rid,
                   [FailedRun(s, 10, "none") EXCEPT
                       !.pc = "done", !.raised = None,
                       !.invoked = <<RunnerCall(planner_with_tools, <<"create plan">>, 10)>>])
    /\ UNCHANGED <<now, uuid_counter, json_files, db, background_tasks, threads>>

\* complete_learning_objective on the TutorSystem of this process: the first
\* invocation is made on self.planner_with_tools as it is (lines 466-467)
StartRunOnPlanner(rid, s, max_turns) ==
    /\ rid \notin DOMAIN runs
    /\ s \in DOMAIN ctx
    /\ IF ~Truthy(ctx[s].learning_objective)
       THEN /\ runs' = Put(runs, rid, FailedRun(s, max_turns, "ValueError"))
            /\ ctx' = ctx
       ELSE LET run == NewRun(s, PrepareSession(ctx[s]), max_turns)
                call == [Val(run.awaiting) EXCEPT !.starting_agent = planner_with_tools]
            IN  /\ ctx' = [ctx EXCEPT ![s] = PrepareSession(@)]
                /\ runs' = Put(runs, rid, [run EXCEPT !.awaiting = Some(call), !.invoked = <<call>>])
    /\ UNCHANGED <<now, uuid_counter, json_files, db, background_tasks, threads>>

\* the process has ended and run_tutor.py is started again for the user:
\* TutorSystem.__init__ loads the stored objective, the agents are None
NewProcess(s) ==
    /\ \A rid \in DOMAIN runs : IsNone(runs[rid].awaiting)
    /\ runs # EmptyDict
    /\ \E c \in Loaded(ctx[s].user_id, ctx[s].use_sqlite, Store) : ctx' = [ctx EXCEPT ![s] = c]
    /\ runs' = EmptyDict
    /\ UNCHANGED <<now, uuid_counter, json_files, db, background_tasks, threads>>

\* run_tutor.py 120-135: the knowledge base is set up when the session is new
ResumeSetupKnowledgeBase ==
    /\ "plan" \notin DOMAIN runs /\ ~Started
    /\ \E v \in VectorStoreResults, u \in UploadSeqs : SetupKnowledgeBase("kb", "s1", v, u)
\* run_tutor.py 137-144, reached after setup_knowledge_base has returned
ResumeCreateStudyPlan ==
    /\ AgentsInitialized /\ ~Started
    /\ \E o \in Objectives : CreateStudyPlanCall("plan", "s1", o)
\* the planner saves its plan during create_study_plan
ResumeSaveStudyPlan ==
    /\ "plan" \in DOMAIN runs /\ ~Started
    /\ \E o \in Objectives : SaveStudyPlan("s1", o, PlanT1, TRUE)
\* run_tutor.py 78-112 and 176-189: learning starts after create_study_plan,
\* or at once when the TutorSystem loaded an objective and no new session
\* is set up
ResumeStart ==
    /\ "plan" \in DOMAIN runs \/ ("kb" \notin DOMAIN runs /\ Truthy(ctx["s1"].learning_objective))
    /\ StartRunOnPlanner("cli", "s1", DefaultMaxTurns)
ResumeRunnerReturns == \E r \in FallbackResults : RunnerReturns("cli", r, TRUE)
ResumeRunnerRaises == RunnerRaises("cli", "AgentsException")
ResumeNewProcess == NewProcess("s1")

ResumeNext ==
    \/ ResumeSetupKnowledgeBase
    \/ ResumeCreateStudyPlan
    \/ ResumeSaveStudyPlan
    \/ ResumeStart
    \/ ResumeRunnerReturns
    \/ ResumeRunnerRaises
    \/ ResumeNewProcess

ResumeSpec == SessionInit /\ [][ResumeNext]_vars

\* C38: every invocation dispatched by create_study_plan or
\* complete_learning_objective is made after setup_knowledge_base has
\* returned on the same TutorSystem, and so on an agent, never on None.
C38_AgentsInitializedBeforeInvoked ==
    \A rid \in DOMAIN runs :
        runs[rid].invoked # <<>> =>
            /\ AgentsInitialized
            /\ \A i \in DOMAIN runs[rid].invoked : runs[rid].invoked[i].starting_agent \in Agents

(***************************************************************************)
(* HelperSpec: the per-entity methods of UserProgressStore (storage.py     *)
(* 423-559) called on the record of one user, next to a session of that    *)
(* user that saves through the tools.  Each method loads the record,       *)
(* changes one entity and saves the record back.                           *)
(***************************************************************************)
\* UserProgressStore.update_topic_mastery (storage.py 462-504)
update_topic_mastery(st, use_sqlite, user_id, objective_id, topic, mastery_level, completed, t, io_ok) ==
    LET data == load_user_progress(st, use_sqlite, user_id)
        new == TopicMasteryData(data, objective_id, topic, mastery_level, completed, t)
    IN  IF IsNone(new) THEN [store |-> st, ok |-> FALSE]
        ELSE save_user_progress(st, use_sqlite, user_id, Val(new), t, io_ok)

\* UserProgressStore.save_quiz_results (storage.py 506-559)
save_quiz_results(st, use_sqlite, user_id, objective_id, quiz_id, topic, quiz_data, answers, score, feedback, t, io_ok) ==
    LET data == load_user_progress(st, use_sqlite, user_id)
        objs == Get(data, "learning_objectives", EmptyDict)
    IN  IF ~Has(objs, objective_id) THEN [store |-> st, ok |-> FALSE]
        ELSE LET quizzes == Get(objs[objective_id], "quizzes", EmptyDict)
                 entry == [topic |-> topic, questions |-> quiz_data, created_at |-> t,
                           results |-> [answers |-> answers, score |-> score,
                                        feedback |-> feedback, created_at |-> t]]
                 new == Put(data, "learning_objectives",
                            Put(objs, objective_id,
                                Put(objs[objective_id], "quizzes", Put(quizzes, quiz_id, entry))))
             IN  save_user_progress(st, use_sqlite, user_id, new, t, io_ok)

\* UserProgressStore.save_study_plan (storage.py 423-460)
save_study_plan(st, use_sqlite, user_id, objective_id, study_plan, t, io_ok) ==
    LET data == load_user_progress(st, use_sqlite, user_id)
        objs == Get(data, "learning_objectives", EmptyDict)
        obj == IF Has(objs, objective_id) THEN objs[objective_id]
               ELSE [k \in {"title", "created_at"} |->
                        IF k = "title" THEN Get(study_plan, "title", Some("Unnamed Objective")) ELSE t]
        new == Put(data, "learning_objectives",
                   Put(objs, objective_id, Put(obj, "study_plan", Put(study_plan, "updated_at", t))))
    IN  save_user_progress(st, use_sqlite, user_id, new, t, io_ok)

\* the objective ids the methods are called with: the session's, and one more
ObjX == <<"obj-x">>
HelperIds == {Uuid4(1), ObjX}
HelperPlan == [topics |-> <<T1, T2>>, learning_path |-> <<T1, T2>>,
               estimated_time |-> [topic \in {T1, T2} |-> "1 hour"], prerequisites |-> EmptyDict]
HelperQuizId == <<"quiz-1">>
\* <<topic, mastery level, completed>>: the flag is the caller's, not the score's
HelperUpdates == { <<T1, MasteryThreshold, FALSE>>, <<T2, 69, TRUE>> }

\* a method of the store has returned r
StoreReturned(r) ==
    /\ json_files' = r.store.json_files
    /\ db' = r.store.db
    /\ UNCHANGED <<now, uuid_counter, ctx, runs, background_tasks, threads>>

UpdateTopicMastery(objective_id, topic, mastery_level, completed) ==
    StoreReturned(update_topic_mastery(Store, ctx["s1"].use_sqlite, U1, objective_id, topic,
                                       mastery_level, completed, now, TRUE))
StoreSaveQuizResults(objective_id) ==
    StoreReturned(save_quiz_results(Store, ctx["s1"].use_sqlite, U1, objective_id, HelperQuizId, T1,
                                    <<Question1>>, [k \in {StrKey(0)} |-> "A"], MasteryThreshold,
                                    EmptyDict, now, TRUE))
StoreSaveStudyPlan(objective_id) ==
    StoreReturned(save_study_plan(Store, ctx["s1"].use_sqlite, U1, objective_id, HelperPlan, now, TRUE))

HelperUpdateTopicMastery ==
    \E oid \in HelperIds, u \in HelperUpdates : UpdateTopicMastery(oid, u[1], u[2], u[3])
HelperSaveQuizResults == \E oid \in HelperIds : StoreSaveQuizResults(oid)
HelperSaveStudyPlan == \E oid \in HelperIds : StoreSaveStudyPlan(oid)
HelperToolSaveStudyPlan == SaveStudyPlan("s1", "Algebra", PlanT1, TRUE)

HelperNext ==
    \/ HelperUpdateTopicMastery
    \/ HelperSaveQuizResults
    \/ HelperSaveStudyPlan
    \/ HelperToolSaveStudyPlan
    \/ Tick

HelperSpec == SessionInit /\ [][HelperNext]_vars

\* a stored objective without the progress entry of one topic
WithoutTopic(o, topic) ==
    Put(o, "topic_progress",
        [x \in (DOMAIN Get(o, "topic_progress", EmptyDict)) \ {topic} |-> o["topic_progress"][x]])

\* C39: update_topic_mastery and save_quiz_results on an objective id that
\* is not stored return False and leave the store as it is; save_study_plan
\* stores the objective; a successful update_topic_mastery stores exactly the
\* given mastery level and completed flag for the topic and leaves every
\* other topic, every quiz, the plan and every other objective as stored.
C39_StoreHelpers ==
    /\ [](\A oid \in HelperIds :
            oid \notin DOMAIN Objs =>
                /\ \A u \in HelperUpdates :
                      update_topic_mastery(Store, ctx["s1"].use_sqlite, U1, oid, u[1], u[2], u[3], now, TRUE)
                          = [store |-> Store, ok |-> FALSE]
                /\ save_quiz_results(Store, ctx["s1"].use_sqlite, U1, oid, HelperQuizId, T1, <<Question1>>,
                                     [k \in {StrKey(0)} |-> "A"], MasteryThreshold, EmptyDict, now, TRUE)
                          = [store |-> Store, ok |-> FALSE])
    /\ [][\A oid \in HelperIds : StoreSaveStudyPlan(oid) => oid \in DOMAIN Objs']_vars
    /\ [][\A oid \in HelperIds, u \in HelperUpdates :
            (UpdateTopicMastery(oid, u[1], u[2], u[3]) /\ oid \in DOMAIN Objs) =>
                /\ DOMAIN Objs' = DOMAIN Objs
                /\ Objs'[oid]["topic_progress"][u[1]]["mastery_level"] = u[2]
                /\ Objs'[oid]["topic_progress"][u[1]]["completed"] = u[3]
                /\ WithoutTopic(Objs'[oid], u[1]) = WithoutTopic(Objs[oid], u[1])
                /\ \A other \in (DOMAIN Objs) \ {oid} : Objs'[other] = Objs[other]]_vars

====
